---- MODULE Spec2Model ----
(***************************************************************************)
(* Hummock compaction core: Compactor::compact_and_build_sst driving a     *)
(* CapacitySplitTableBuilder over a merged iterator, and Compactor::compact *)
(* orchestrating the parallel sub-tasks of one compaction task.             *)
(***************************************************************************)
EXTENDS Integers, Sequences, FiniteSets, TLC

\* ---------------------------------------------------------------- bounds
\* Largest epoch carried by an input key (epochs are 1..MaxEpoch).
MaxEpoch == 3
\* Largest number of entries the merged iterator yields.
MaxLen == 3
\* options.capacity of the SST builders, counted in entries.
Capacity == 1
\* Largest number of entries in the input of a whole compaction task.
TaskMaxLen == 2

UserKeys == {1, 2}
Epochs == 1..MaxEpoch

\* ------------------------------------------------------------ data model
\* A full key is <<user_key, epoch>>; the empty byte string is <<>>.
FullKeys == UserKeys \X Epochs
EmptyKey == <<>>

Put == "Put"
Delete == "Delete"
Values == {Put, Delete}

Entries == [key : FullKeys, value : Values]

user_key(k) == k[1]
get_epoch(k) == k[2]
is_delete(v) == v = Delete

Less == "Less"
Equal == "Equal"
Greater == "Greater"

\* VersionedComparator::compare_key: user key ascending, then epoch descending.
compare_key(a, b) ==
    IF user_key(a) < user_key(b) THEN Less
    ELSE IF user_key(a) > user_key(b) THEN Greater
    ELSE IF get_epoch(a) > get_epoch(b) THEN Less
    ELSE IF get_epoch(a) < get_epoch(b) THEN Greater
    ELSE Equal

same_user_key(a, b) == user_key(a) = user_key(b)

\* The sorted runs a merged iterator can yield: strictly increasing full keys.
RECURSIVE SortedRuns(_)
SortedRuns(n) ==
    IF n = 0 THEN {<<>>}
    ELSE LET shorter == SortedRuns(n - 1) IN
         shorter \cup
         {Append(s, e) : <<s, e>> \in
             {p \in shorter \X Entries :
                 /\ Len(p[1]) = n - 1
                 /\ p[1] # <<>> => compare_key(p[1][Len(p[1])].key, p[2].key) = Less}}

Inputs == SortedRuns(MaxLen)

KeysOf(run) == {run[i].key : i \in DOMAIN run}

\* Key ranges: either side may be the empty key (unbounded).
KeyRanges(keys) ==
    {r \in [left : keys \cup {EmptyKey}, right : keys \cup {EmptyKey}] :
        (r.left # EmptyKey /\ r.right # EmptyKey) => compare_key(r.left, r.right) = Less}

\* ------------------------------------------------------- merged iterator
\* HummockIterator::seek: the first position whose key is >= the target.
SeekPos(run, target) ==
    LET hits == {i \in DOMAIN run : compare_key(run[i].key, target) # Less} IN
    IF hits = {} THEN Len(run) + 1
    ELSE CHOOSE i \in hits : \A j \in hits : i <= j

\* HummockIterator::rewind.
RewindPos == 1

is_valid(run, pos) == pos <= Len(run)

\* ------------------------------------------------------ compaction filter
\* CompactionFilter::should_delete; a filter is the set of keys it vetoes.
should_delete(filter, k) == k \in filter

\* --------------------------------------------- CapacitySplitTableBuilder
NoBuilder == <<>>

NewBuilder == [sealed_builders |-> <<>>, current_builder |-> NoBuilder]

\* A builder that takes the first id whatever the factory handed out.
OpenSst_first_id(id) == [id |-> 1, entries |-> <<>>]

\* SSTableBuilder::new for the id the factory was handed.
OpenSst(id) == [id |-> id, entries |-> <<>>]

reach_capacity(b) == Len(b.entries) >= Capacity

\* A len() that counts the sealed builders only.
builder_len_sealed_only(sb) == Len(sb.sealed_builders)

\* CapacitySplitTableBuilder::len.
builder_len(sb) ==
    Len(sb.sealed_builders) + (IF sb.current_builder # NoBuilder THEN 1 ELSE 0)

\* A seal that puts the newest SST first.
seal_current_prepend(sb) ==
    IF sb.current_builder # NoBuilder
    THEN [sealed_builders |-> <<sb.current_builder[1]>> \o sb.sealed_builders,
          current_builder |-> NoBuilder]
    ELSE sb

\* A seal that pushes an SST also when no builder is open.
seal_current_always(sb) ==
    [sealed_builders |->
         Append(sb.sealed_builders,
                IF sb.current_builder # NoBuilder
                THEN sb.current_builder[1] ELSE [id |-> 0, entries |-> <<>>]),
     current_builder |-> NoBuilder]

\* CapacitySplitTableBuilder::seal_current.
seal_current(sb) ==
    IF sb.current_builder # NoBuilder
    THEN [sealed_builders |-> Append(sb.sealed_builders, sb.current_builder[1]),
          current_builder |-> NoBuilder]
    ELSE sb

\* A seal decision that ignores allow_split.
SealIfDue_ignore_allow_split(sb, allow_split) ==
    IF sb.current_builder # NoBuilder /\ reach_capacity(sb.current_builder[1])
    THEN seal_current(sb)
    ELSE sb

\* First half of add_full_key: seal when splitting is allowed and due.
SealIfDue(sb, allow_split) ==
    IF sb.current_builder # NoBuilder
       /\ allow_split /\ reach_capacity(sb.current_builder[1])
    THEN seal_current(sb)
    ELSE sb

\* add_full_key asks the factory for a builder exactly when none is open.
NeedsOpen(sb, allow_split) == SealIfDue(sb, allow_split).current_builder = NoBuilder

\* add_full_key when the factory call (if any) succeeded with `id`.
add_full_key(sb, entry, allow_split, id) ==
    LET s1 == SealIfDue(sb, allow_split)
        s2 == IF s1.current_builder = NoBuilder
              THEN [s1 EXCEPT !.current_builder = <<OpenSst(id)>>]
              ELSE s1
    IN [s2 EXCEPT !.current_builder =
            <<[@[1] EXCEPT !.entries = Append(@, entry)]>>]

finish(sb) == seal_current(sb).sealed_builders

\* ------------------------------------------------- compact_and_build_sst
is_new_user_key(iter_key, last) ==
    IF last = EmptyKey THEN TRUE ELSE ~same_user_key(iter_key, last)

\* The loop's break: a new user key at or beyond kr.right.
BeyondRight(iter_key, range) ==
    IF range.right = EmptyKey THEN FALSE
    ELSE compare_key(iter_key, range.right) # Less

\* A drop decision that collapses tombstones above the watermark too.
ShouldDrop_any_epoch(entry, gc, wm, can_see, filter) ==
    LET epoch == get_epoch(entry.key) IN
    \/ (gc /\ is_delete(entry.value))
    \/ (epoch < wm /\ can_see)
    \/ should_delete(filter, entry.key)

\* A drop decision that collapses tombstones whatever gc_delete_keys says.
ShouldDrop_ignore_gc(entry, gc, wm, can_see, filter) ==
    LET epoch == get_epoch(entry.key) IN
    \/ (epoch <= wm /\ is_delete(entry.value))
    \/ (epoch < wm /\ can_see)
    \/ should_delete(filter, entry.key)

\* The drop decision of the loop body.
ShouldDrop(entry, gc, wm, can_see, filter) ==
    LET epoch == get_epoch(entry.key) IN
    \/ (epoch <= wm /\ gc /\ is_delete(entry.value))
    \/ (epoch < wm /\ can_see)
    \/ should_delete(filter, entry.key)

\* A flag that a tombstone does not raise.
CanSeeAfter_puts_only(entry, wm, can_see, new_key) ==
    IF get_epoch(entry.key) <= wm /\ ~is_delete(entry.value)
    THEN TRUE
    ELSE IF new_key THEN FALSE ELSE can_see

\* watermark_can_see_last_key after the entry was looked at.
CanSeeAfter(entry, wm, can_see, new_key) ==
    IF get_epoch(entry.key) <= wm THEN TRUE
    ELSE IF new_key THEN FALSE ELSE can_see

\* ------------------------------------------------- the filter chain
\* CompactionFilterFlag: a bit set over STATE_CLEAN and TTL.
STATE_CLEAN == 2
TTL == 4
NoFlags == 0
AllFlags == STATE_CLEAN + TTL

\* The masks a task may carry: three bits, the lowest of which is no flag.
Masks == 0..7

contains(flags, flag) == (flags \div flag) % 2 = 1

\* CompactionFilterFlag::from_bits: None (<<>>) when a bit outside the flags
\* is set, Some(<<flags>>) otherwise.
from_bits(mask) ==
    IF mask % 2 = 1 \/ mask > AllFlags THEN <<>> ELSE <<mask>>

\* Option::unwrap_or_default: the empty flag set for None.
unwrap_or_default(opt) == IF opt = <<>> THEN NoFlags ELSE opt[1]

\* The table a key belongs to is its user key; table 1 still exists, and the
\* rows of epoch 1 are past their retention.
table_id(k) == user_key(k)
existing_table_ids == {1}
StateCleanUpCompactionFilter(keys) == {k \in keys : table_id(k) \notin existing_table_ids}
TTLCompactionFilter(keys) == {k \in keys : get_epoch(k) = 1}

\* The MultiCompactionFilter that compact registers for a mask, as the set
\* of keys some registered filter vetoes.
multi_filter(mask, keys) ==
    LET compaction_filter_flag == unwrap_or_default(from_bits(mask)) IN
    (IF contains(compaction_filter_flag, STATE_CLEAN)
     THEN StateCleanUpCompactionFilter(keys) ELSE {})
    \cup
    (IF contains(compaction_filter_flag, TTL)
     THEN TTLCompactionFilter(keys) ELSE {})

VARIABLES
    input,                       \* what the merged iterator yields, in order
    kr,                          \* the split's key range
    gc_delete_keys,
    watermark,
    compaction_filter,           \* keys for which should_delete is true
    iter,                        \* position of the iterator
    last_key,
    watermark_can_see_last_key,
    sst_builder,                 \* the CapacitySplitTableBuilder
    next_sst_id,                 \* SstableIdManager's next id
    pc,                          \* start, loop, built, done, failed
    splits,                      \* compact_task.splits
    task_pc,                     \* where Compactor::compact stands
    split_index,                 \* the next split the spawn loop schedules
    sub_task,                    \* per split: the spawned sub-task
    output_ssts,                 \* the (split_index, ssts) pairs collected
    compact_success,
    report,                      \* what report_compaction_task was called with
    return_value,                \* what compact returned
    tracker,                     \* the SST id watermark of the task
    compact_task_pending_num,    \* the gauge of the same name
    compaction_filter_mask,      \* compact_task.compaction_filter_mask
    remove_watermark_calls,      \* remove_watermark_sst_id calls for the task
    shared_buffer,               \* LocalVersion: epoch -> SharedBuffer
    pinned_version,              \* LocalVersion: the installed PinnedVersion
    version_ids_in_use,          \* LocalVersion: ids ever installed
    versions,                    \* every PinnedVersion object ever created
    unpin_worker_tx,             \* ids sent on the unpin channel, in order
    readers,                     \* per reader: where read_version stands
    last_call,                   \* the last LocalVersion call and its result
    factory_calls,               \* ids the builder factory handed out, in order
    upload_spawns,               \* ids of the uploads seal_current spawned
    added,                       \* the entries add_full_key accepted, in order
    finished,                    \* finish() consumed the builder
    results,                     \* what finish() returned
    service_pc,                  \* where the loop of start_compactor stands
    shutdown_rx,                 \* the oneshot channel: pending, sent, closed
    handlers,                    \* the tasks spawned with process_task
    last_failure,                \* why the stream was last given up
    last_message,                \* the last message of the open stream
    observed_at,                 \* where the loop saw the shutdown signal
    pk_indices,                  \* DedupPkCellBasedRowSerializer::new arguments
    column_descs,
    column_ids,
    row,                         \* the row handed to serialize
    serializer,                  \* the constructed serializer, <<>> before new
    cells,                       \* what serialize returned
    deserialized,                \* what the compact deserializer took
    ser_pc,                      \* new, serialize, deserialize, done
    chain_mask,                  \* the compaction_filter_mask the chains are built from
    filters,                     \* the MultiCompactionFilter chains built so far
    verdicts,                    \* the should_delete calls made and their results
    tables,                      \* SimpleTableManager: TableId -> table
    table_call,                  \* the last TableManager call and its result
    core,                        \* what the meta managers hold under their guards
    subscriptions,               \* the subscribe calls, in order of arrival
    streams,                     \* per subscribe call: the messages on its channel
    senders,                     \* NotificationManager: (worker type, host) -> tx
    notified                     \* notifications the manager has sent out

build_vars == <<kr, iter, last_key, watermark_can_see_last_key, sst_builder, pc>>

task_vars == <<splits, task_pc, split_index, sub_task, output_ssts,
               compact_success, report, return_value, tracker,
               compact_task_pending_num, compaction_filter_mask,
               remove_watermark_calls>>

local_vars == <<shared_buffer, pinned_version, version_ids_in_use, versions,
                unpin_worker_tx, readers, last_call>>

builder_api_vars == <<factory_calls, upload_spawns, added, finished, results>>

service_vars == <<service_pc, shutdown_rx, handlers, last_failure, last_message,
                  observed_at>>

serializer_vars == <<pk_indices, column_descs, column_ids, row, serializer, cells,
                     deserialized, ser_pc>>

filter_vars == <<chain_mask, filters, verdicts>>

table_vars == <<tables, table_call>>

notify_vars == <<core, subscriptions, streams, senders, notified>>

more_vars == <<filter_vars, table_vars, notify_vars>>

aux_vars == <<builder_api_vars, service_vars, serializer_vars, more_vars>>

vars == <<input, kr, gc_delete_keys, watermark, compaction_filter, iter,
          last_key, watermark_can_see_last_key, sst_builder, next_sst_id, pc,
          task_vars, local_vars, aux_vars>>

params == <<input, kr, gc_delete_keys, watermark, compaction_filter>>

\* The filters tried: none (DummyCompactionFilter), one that vetoes a single
\* key, and one that vetoes every key.
Filters(keys) == {{}, keys} \cup {{k} : k \in keys}

\* No compaction task is being handled.
TaskIdle ==
    /\ splits = <<>>
    /\ task_pc = "idle"
    /\ split_index = 0
    /\ sub_task = <<>>
    /\ output_ssts = <<>>
    /\ compact_success = TRUE
    /\ report = <<>>
    /\ return_value = "none"
    /\ tracker = "none"
    /\ compact_task_pending_num = 0
    /\ compaction_filter_mask = 0
    /\ remove_watermark_calls = 0

\* No LocalVersion exists.
LocalIdle ==
    /\ shared_buffer = <<>>
    /\ pinned_version = 0
    /\ version_ids_in_use = {}
    /\ versions = <<>>
    /\ unpin_worker_tx = <<>>
    /\ readers = <<>>
    /\ last_call = <<>>

\* No CapacitySplitTableBuilder is driven through its interface alone.
BuilderApiIdle ==
    /\ factory_calls = <<>>
    /\ upload_spawns = <<>>
    /\ added = <<>>
    /\ finished = FALSE
    /\ results = <<>>

\* start_compactor has not been called.
ServiceIdle ==
    /\ service_pc = "not_started"
    /\ shutdown_rx = "pending"
    /\ handlers = <<>>
    /\ last_failure = "none"
    /\ last_message = "none"
    /\ observed_at = "none"

\* No serializer is constructed.
SerializerIdle ==
    /\ pk_indices = {}
    /\ column_descs = <<>>
    /\ column_ids = <<>>
    /\ row = <<>>
    /\ serializer = <<>>
    /\ cells = <<>>
    /\ deserialized = <<>>
    /\ ser_pc = "idle"

\* No filter chain is built apart from a task.
FilterIdle ==
    /\ chain_mask = 0
    /\ filters = <<>>
    /\ verdicts = <<>>

\* No SimpleTableManager exists.
TablesIdle ==
    /\ tables = <<>>
    /\ table_call = <<>>

\* No notification service is running.
NotifyIdle ==
    /\ core = <<>>
    /\ subscriptions = <<>>
    /\ streams = <<>>
    /\ senders = {}
    /\ notified = 0

MoreIdle == FilterIdle /\ TablesIdle /\ NotifyIdle

AuxIdle == BuilderApiIdle /\ ServiceIdle /\ SerializerIdle /\ MoreIdle

Init ==
    /\ TaskIdle
    /\ LocalIdle
    /\ AuxIdle
    /\ input \in Inputs
    /\ kr \in KeyRanges(KeysOf(input))
    /\ gc_delete_keys \in BOOLEAN
    /\ watermark \in 0..MaxEpoch
    /\ compaction_filter \in Filters(KeysOf(input))
    /\ iter = 0
    /\ last_key = EmptyKey
    /\ watermark_can_see_last_key = FALSE
    /\ sst_builder = NewBuilder
    /\ next_sst_id = 1
    /\ pc = "start"

\* iter.seek(&kr.left) or iter.rewind().
Seek ==
    /\ pc = "start"
    /\ iter' = IF kr.left # EmptyKey THEN SeekPos(input, kr.left) ELSE RewindPos
    /\ pc' = "loop"
    /\ UNCHANGED <<params, last_key, watermark_can_see_last_key, sst_builder,
                   next_sst_id, task_vars, local_vars, aux_vars>>

Cur == input[iter]
CurNew == is_new_user_key(Cur.key, last_key)
CurBreak == CurNew /\ BeyondRight(Cur.key, kr)
\* A loop body that raises the flag before it decides.
CanSeeAtDecision_flag_first ==
    CanSeeAfter(Cur, watermark, watermark_can_see_last_key, CurNew)

\* watermark_can_see_last_key as the drop decision reads it: reset for a new
\* user key, and not yet raised by the entry itself.
CanSeeAtDecision == IF CurNew THEN FALSE ELSE watermark_can_see_last_key
CurDrop == ShouldDrop(Cur, gc_delete_keys, watermark, CanSeeAtDecision,
                      compaction_filter)

\* The loop is left: the iterator is exhausted, or a new user key is beyond
\* kr.right.
LoopExit ==
    /\ pc = "loop"
    /\ \/ ~is_valid(input, iter)
       \/ is_valid(input, iter) /\ CurBreak
    /\ pc' = "built"
    /\ UNCHANGED <<params, iter, last_key, watermark_can_see_last_key,
                   sst_builder, next_sst_id, task_vars, local_vars, aux_vars>>

LoopCommon ==
    /\ pc = "loop"
    /\ is_valid(input, iter)
    /\ ~CurBreak
    /\ last_key' = IF CurNew THEN Cur.key ELSE last_key
    /\ watermark_can_see_last_key' =
           CanSeeAfter(Cur, watermark, watermark_can_see_last_key, CurNew)

\* One pass of the loop body that drops the entry.
LoopDrop ==
    /\ LoopCommon
    /\ CurDrop
    /\ iter' = iter + 1
    /\ UNCHANGED <<params, sst_builder, next_sst_id, pc, task_vars, local_vars, aux_vars>>

\* One pass of the loop body that hands the entry to add_full_key.
LoopAdd ==
    /\ LoopCommon
    /\ ~CurDrop
    /\ sst_builder' = add_full_key(sst_builder, Cur, CurNew, next_sst_id)
    /\ next_sst_id' = IF NeedsOpen(sst_builder, CurNew)
                      THEN next_sst_id + 1 ELSE next_sst_id
    /\ iter' = iter + 1
    /\ UNCHANGED <<params, pc, task_vars, local_vars, aux_vars>>

\* add_full_key fails: get_new_sst_id returned an error while opening.
LoopAddFail ==
    /\ LoopCommon
    /\ ~CurDrop
    /\ NeedsOpen(sst_builder, CurNew)
    /\ sst_builder' = SealIfDue(sst_builder, CurNew)
    /\ pc' = "failed"
    /\ UNCHANGED <<params, iter, next_sst_id, task_vars, local_vars, aux_vars>>

\* compact_key_range_impl: builder.finish() after compact_and_build_sst.
Finish ==
    /\ pc = "built"
    /\ sst_builder' = seal_current(sst_builder)
    /\ pc' = "done"
    /\ UNCHANGED <<params, iter, last_key, watermark_can_see_last_key,
                   next_sst_id, task_vars, local_vars, aux_vars>>

Next == Seek \/ LoopExit \/ LoopDrop \/ LoopAdd \/ LoopAddFail \/ Finish

Spec == Init /\ [][Next]_vars

\* ------------------------------------------------------ Compactor::compact
\* compact_and_build_sst run to its end without an error: the loop of the
\* actions above, folded over the iterator.
RECURSIVE BuildLoop(_, _, _, _, _, _)
BuildLoop(run, range, gc, wm, filter, st) ==
    IF ~is_valid(run, st.iter) THEN st
    ELSE
        LET entry == run[st.iter]
            new_key == is_new_user_key(entry.key, st.last_key)
        IN  IF new_key /\ BeyondRight(entry.key, range) THEN st
            ELSE
                LET can_see == IF new_key THEN FALSE ELSE st.can_see
                    seen == [st EXCEPT
                               !.iter = @ + 1,
                               !.last_key = IF new_key THEN entry.key ELSE @,
                               !.can_see = CanSeeAfter(entry, wm, st.can_see, new_key)]
                IN  BuildLoop(run, range, gc, wm, filter,
                        IF ShouldDrop(entry, gc, wm, can_see, filter)
                        THEN seen
                        ELSE [seen EXCEPT
                                !.sb = add_full_key(@, entry, new_key, st.next_id),
                                !.next_id = IF NeedsOpen(st.sb, new_key)
                                            THEN @ + 1 ELSE @])

\* compact_key_range_impl when nothing fails: seek, build, finish.
compact_key_range(run, range, gc, wm, filter, first_id) ==
    LET st == BuildLoop(run, range, gc, wm, filter,
                  [iter |-> IF range.left # EmptyKey
                            THEN SeekPos(run, range.left) ELSE RewindPos,
                   last_key |-> EmptyKey,
                   can_see |-> FALSE,
                   sb |-> NewBuilder,
                   next_id |-> first_id])
    IN [ssts |-> finish(st.sb), next_id |-> st.next_id]

\* The tasks tried: one split covering everything, or two splits that meet
\* at one of the input's keys.
TaskSplits(keys) ==
    {<<[left |-> EmptyKey, right |-> EmptyKey]>>} \cup
    {<<[left |-> EmptyKey, right |-> b], [left |-> b, right |-> EmptyKey]>> :
        b \in keys}

NotSpawned ==
    [state |-> "unspawned", kind |-> "none", cause |-> "none", ssts |-> <<>>,
     uploads |-> <<>>]

InitTask ==
    /\ LocalIdle
    /\ AuxIdle
    /\ input \in SortedRuns(TaskMaxLen)
    /\ splits \in TaskSplits(KeysOf(input))
    /\ gc_delete_keys \in BOOLEAN
    /\ watermark \in {0, MaxEpoch}
    /\ compaction_filter_mask \in Masks
    /\ compaction_filter = {}
    /\ next_sst_id = 1
    /\ kr = [left |-> EmptyKey, right |-> EmptyKey]
    /\ iter = 0
    /\ last_key = EmptyKey
    /\ watermark_can_see_last_key = FALSE
    /\ sst_builder = NewBuilder
    /\ pc = "idle"
    /\ task_pc = "start"
    /\ split_index = 1
    /\ sub_task = [i \in DOMAIN splits |-> NotSpawned]
    /\ output_ssts = <<>>
    /\ compact_success = TRUE
    /\ report = <<>>
    /\ return_value = "none"
    /\ tracker = "none"
    /\ compact_task_pending_num = 0
    /\ remove_watermark_calls = 0

task_params == <<input, splits, gc_delete_keys, watermark, compaction_filter,
                 compaction_filter_mask>>

\* add_watermark_sst_id succeeded: the guard is armed, the gauge is raised.
AddWatermark ==
    /\ task_pc = "start"
    /\ tracker' = "registered"
    /\ compact_task_pending_num' = compact_task_pending_num + 1
    /\ task_pc' = "spawning"
    /\ UNCHANGED <<task_params, build_vars, local_vars, aux_vars, remove_watermark_calls,
                   next_sst_id, split_index, sub_task, output_ssts,
                   compact_success, report, return_value>>

\* add_watermark_sst_id failed: compact returns false at once.
AddWatermarkFail ==
    /\ task_pc = "start"
    /\ task_pc' = "returned"
    /\ return_value' = "false"
    /\ UNCHANGED <<task_params, build_vars, local_vars, aux_vars, remove_watermark_calls,
                   next_sst_id, split_index, sub_task, output_ssts,
                   compact_success, report, tracker, compact_task_pending_num>>

\* One pass of the spawn loop: request_execution returned a join handle.
Schedule ==
    /\ task_pc = "spawning"
    /\ sub_task' = [sub_task EXCEPT ![split_index].state = "running"]
    /\ split_index' = split_index + 1
    /\ task_pc' = IF split_index = Len(splits) THEN "collecting" ELSE "spawning"
    /\ UNCHANGED <<task_params, build_vars, local_vars, aux_vars, remove_watermark_calls,
                   next_sst_id, output_ssts, compact_success, report,
                   return_value, tracker, compact_task_pending_num>>

\* A scheduling failure that keeps the guard alive.
ScheduleFail_leak ==
    /\ task_pc = "spawning"
    /\ task_pc' = "returned"
    /\ return_value' = "false"
    /\ UNCHANGED <<task_params, build_vars, local_vars, aux_vars, remove_watermark_calls,
                   next_sst_id, split_index, sub_task, output_ssts,
                   compact_success, report, tracker, compact_task_pending_num>>

\* request_execution failed: compact returns false, the guard is dropped.
ScheduleFail ==
    /\ task_pc = "spawning"
    /\ task_pc' = "returned"
    /\ return_value' = "false"
    /\ tracker' = "releasing"
    /\ UNCHANGED <<task_params, build_vars, local_vars, aux_vars, remove_watermark_calls,
                   next_sst_id, split_index, sub_task, output_ssts,
                   compact_success, report, compact_task_pending_num>>

\* What split i builds when nothing fails, with the filter chain of the task.
BuildOf(i) ==
    compact_key_range(input, splits[i], gc_delete_keys, watermark,
                      multi_filter(compaction_filter_mask, KeysOf(input)),
                      next_sst_id)

\* A sub-task ran compact_and_build_sst and builder.finish(): every sealed
\* SST has an upload in flight, and the sub-task awaits them.
SubTaskBuild(i) ==
    /\ sub_task[i].state = "running"
    /\ LET out == BuildOf(i)
       IN /\ sub_task' = [sub_task EXCEPT
                             ![i].state = "uploading",
                             ![i].ssts = out.ssts,
                             ![i].uploads = [k \in DOMAIN out.ssts |-> "pending"]]
          /\ next_sst_id' = out.next_id
    /\ UNCHANGED <<task_params, build_vars, local_vars, aux_vars, remove_watermark_calls,
                   task_pc, split_index, output_ssts, compact_success, report,
                   return_value, tracker, compact_task_pending_num>>

\* The upload of one sealed SST ends well: sstable_store.put returned Ok.
\* Uploads are followed while the sub-task awaits them.
UploadOk(i, k) ==
    /\ sub_task[i].state = "uploading"
    /\ k \in DOMAIN sub_task[i].uploads
    /\ sub_task[i].uploads[k] = "pending"
    /\ sub_task' = [sub_task EXCEPT ![i].uploads[k] = "ok"]
    /\ UNCHANGED <<task_params, build_vars, local_vars, aux_vars, remove_watermark_calls,
                   next_sst_id, task_pc, split_index, output_ssts,
                   compact_success, report, return_value, tracker,
                   compact_task_pending_num>>

\* Outcomes of an upload that make try_join_all return an error: put
\* returned Err ("failed"), or the join handle yields a JoinError ("lost").
UploadFailures == {"failed", "lost"}

\* The upload of one sealed SST fails: try_join_all resolves to the error at
\* once, without waiting for the other uploads, and the sub-task returns it.
UploadFail(i, k, result) ==
    /\ sub_task[i].state = "uploading"
    /\ k \in DOMAIN sub_task[i].uploads
    /\ sub_task[i].uploads[k] = "pending"
    /\ sub_task' = [sub_task EXCEPT ![i].uploads[k] = result,
                                    ![i].state = "finished",
                                    ![i].kind = "Err",
                                    ![i].cause = "upload"]
    /\ UNCHANGED <<task_params, build_vars, local_vars, aux_vars, remove_watermark_calls,
                   next_sst_id, task_pc, split_index, output_ssts,
                   compact_success, report, return_value, tracker,
                   compact_task_pending_num>>

\* A return of Ok that does not wait for the uploads.
AllUploaded_no_wait(uploads) == TRUE

\* try_join_all resolved to Ok: every upload join handle returned Ok(Ok(())).
AllUploaded(uploads) == \A k \in DOMAIN uploads : uploads[k] = "ok"

\* The sub-task returns Ok((split_index, ssts)) once the uploads are joined.
SubTaskOk(i) ==
    /\ sub_task[i].state = "uploading"
    /\ AllUploaded(sub_task[i].uploads)
    /\ sub_task' = [sub_task EXCEPT ![i].state = "finished", ![i].kind = "Ok"]
    /\ UNCHANGED <<task_params, build_vars, local_vars, aux_vars, remove_watermark_calls,
                   next_sst_id, task_pc, split_index, output_ssts,
                   compact_success, report, return_value, tracker,
                   compact_task_pending_num>>

\* The sub-task returned an error before building: build_sst_iter failed.
SubTaskErr(i) ==
    /\ sub_task[i].state = "running"
    /\ sub_task' = [sub_task EXCEPT ![i].state = "finished", ![i].kind = "Err",
                                    ![i].cause = "iterator"]
    /\ UNCHANGED <<task_params, build_vars, local_vars, aux_vars, remove_watermark_calls,
                   next_sst_id, task_pc, split_index, output_ssts,
                   compact_success, report, return_value, tracker,
                   compact_task_pending_num>>

\* get_new_sst_id failed while a builder was being opened: the error leaves
\* add_full_key, compact_and_build_sst and the sub-task through `?`.  It can
\* happen only to a split that has an entry to write.
SubTaskIdFail(i) ==
    /\ sub_task[i].state = "running"
    /\ BuildOf(i).ssts # <<>>
    /\ sub_task' = [sub_task EXCEPT ![i].state = "finished", ![i].kind = "Err",
                                    ![i].cause = "sst_id"]
    /\ UNCHANGED <<task_params, build_vars, local_vars, aux_vars, remove_watermark_calls,
                   next_sst_id, task_pc, split_index, output_ssts,
                   compact_success, report, return_value, tracker,
                   compact_task_pending_num>>

\* A sub-task panicked or was cancelled: its join handle yields a JoinError.
SubTaskAbort(i) ==
    /\ sub_task[i].state \in {"running", "uploading"}
    /\ sub_task' = [sub_task EXCEPT ![i].state = "finished",
                                    ![i].kind = "JoinError"]
    /\ UNCHANGED <<task_params, build_vars, local_vars, aux_vars, remove_watermark_calls,
                   next_sst_id, task_pc, split_index, output_ssts,
                   compact_success, report, return_value, tracker,
                   compact_task_pending_num>>

\* A collect step that also lists the SSTs a failed sub-task had built.
Collect_push_failed(i) ==
    /\ task_pc = "collecting"
    /\ sub_task[i].state = "finished"
    /\ sub_task[i].kind \in {"Ok", "Err"}
    /\ sub_task' = [sub_task EXCEPT ![i].state = "joined"]
    /\ output_ssts' = Append(output_ssts,
                             [split_index |-> i, ssts |-> sub_task[i].ssts])
    /\ compact_success' = IF sub_task[i].kind = "Err" THEN FALSE
                          ELSE compact_success
    /\ UNCHANGED <<task_params, build_vars, local_vars, aux_vars, remove_watermark_calls,
                   next_sst_id, task_pc, split_index, report, return_value,
                   tracker, compact_task_pending_num>>

\* A collect step that forgets the failure of a sub-task.
Collect_keep_success(i) ==
    /\ task_pc = "collecting"
    /\ sub_task[i].state = "finished"
    /\ sub_task[i].kind \in {"Ok", "Err"}
    /\ sub_task' = [sub_task EXCEPT ![i].state = "joined"]
    /\ output_ssts' = IF sub_task[i].kind = "Ok"
                      THEN Append(output_ssts,
                                  [split_index |-> i, ssts |-> sub_task[i].ssts])
                      ELSE output_ssts
    /\ UNCHANGED <<task_params, build_vars, local_vars, aux_vars, remove_watermark_calls,
                   next_sst_id, task_pc, split_index, compact_success, report,
                   return_value, tracker, compact_task_pending_num>>

\* buffer_unordered yields the result of a finished sub-task.
Collect(i) ==
    /\ task_pc = "collecting"
    /\ sub_task[i].state = "finished"
    /\ sub_task[i].kind \in {"Ok", "Err"}
    /\ sub_task' = [sub_task EXCEPT ![i].state = "joined"]
    /\ output_ssts' = IF sub_task[i].kind = "Ok"
                      THEN Append(output_ssts,
                                  [split_index |-> i, ssts |-> sub_task[i].ssts])
                      ELSE output_ssts
    /\ compact_success' = IF sub_task[i].kind = "Err" THEN FALSE
                          ELSE compact_success
    /\ UNCHANGED <<task_params, build_vars, local_vars, aux_vars, remove_watermark_calls,
                   next_sst_id, task_pc, split_index, report, return_value,
                   tracker, compact_task_pending_num>>

\* buffer_unordered yields a JoinError: future_result.unwrap() panics, and
\* the unwinding drops the guard.
CollectPanic(i) ==
    /\ task_pc = "collecting"
    /\ sub_task[i].state = "finished"
    /\ sub_task[i].kind = "JoinError"
    /\ sub_task' = [sub_task EXCEPT ![i].state = "joined"]
    /\ task_pc' = "panicked"
    /\ tracker' = "releasing"
    /\ UNCHANGED <<task_params, build_vars, local_vars, aux_vars, remove_watermark_calls,
                   next_sst_id, split_index, output_ssts, compact_success,
                   report, return_value, compact_task_pending_num>>

RemoveAt(seq, m) == [k \in 1..(Len(seq) - 1) |-> IF k < m THEN seq[k] ELSE seq[k + 1]]

\* output_ssts.sort_by_key(|(split_index, _)| *split_index): a stable sort.
RECURSIVE sort_by_key(_)
sort_by_key(pairs) ==
    IF pairs = <<>> THEN <<>>
    ELSE LET m == CHOOSE i \in DOMAIN pairs :
                    \A j \in DOMAIN pairs :
                        \/ pairs[i].split_index < pairs[j].split_index
                        \/ (pairs[i].split_index = pairs[j].split_index /\ i <= j)
         IN <<pairs[m]>> \o sort_by_key(RemoveAt(pairs, m))

\* compact_done: the SSTs of the pairs, in the order of the pairs.
RECURSIVE sorted_output_ssts(_)
sorted_output_ssts(pairs) ==
    IF pairs = <<>> THEN <<>>
    ELSE pairs[1].ssts \o sorted_output_ssts(Tail(pairs))

\* Every sub-task was joined: sort, then compact_done reports the task.
Report ==
    /\ task_pc = "collecting"
    /\ \A i \in DOMAIN sub_task : sub_task[i].state = "joined"
    /\ output_ssts' = sort_by_key(output_ssts)
    /\ report' = <<[task_status |-> compact_success,
                    sorted_output_ssts |-> sorted_output_ssts(sort_by_key(output_ssts))]>>
    /\ task_pc' = "reported"
    /\ UNCHANGED <<task_params, build_vars, local_vars, aux_vars, remove_watermark_calls,
                   next_sst_id, split_index, sub_task, compact_success,
                   return_value, tracker, compact_task_pending_num>>

\* The tail of compact: the gauge is lowered, compact_success is returned and
\* the guard is dropped.
Return ==
    /\ task_pc = "reported"
    /\ compact_task_pending_num' = compact_task_pending_num - 1
    /\ return_value' = IF compact_success THEN "true" ELSE "false"
    /\ tracker' = "releasing"
    /\ task_pc' = "returned"
    /\ UNCHANGED <<task_params, build_vars, local_vars, aux_vars, remove_watermark_calls,
                   next_sst_id, split_index, sub_task, output_ssts,
                   compact_success, report>>

\* The task the guard spawned runs remove_watermark_sst_id.
RemoveWatermark ==
    /\ tracker = "releasing"
    /\ tracker' = "removed"
    /\ remove_watermark_calls' = remove_watermark_calls + 1
    /\ UNCHANGED <<task_params, build_vars, local_vars, aux_vars, next_sst_id, task_pc,
                   split_index, sub_task, output_ssts, compact_success, report,
                   return_value, compact_task_pending_num>>

NextTask ==
    \/ AddWatermark
    \/ AddWatermarkFail
    \/ Schedule
    \/ ScheduleFail
    \/ \E i \in DOMAIN sub_task : SubTaskBuild(i)
    \/ \E i \in DOMAIN sub_task : \E k \in 1..TaskMaxLen : UploadOk(i, k)
    \/ \E i \in DOMAIN sub_task : \E k \in 1..TaskMaxLen : \E r \in UploadFailures :
          UploadFail(i, k, r)
    \/ \E i \in DOMAIN sub_task : SubTaskOk(i)
    \/ \E i \in DOMAIN sub_task : SubTaskErr(i)
    \/ \E i \in DOMAIN sub_task : SubTaskIdFail(i)
    \/ \E i \in DOMAIN sub_task : SubTaskAbort(i)
    \/ \E i \in DOMAIN sub_task : Collect(i)
    \/ \E i \in DOMAIN sub_task : CollectPanic(i)
    \/ Report
    \/ Return
    \/ RemoveWatermark

SpecTask == InitTask /\ [][NextTask]_vars

\* Tasks that differ only in their splits and input: the release of the
\* watermark does not look at the filter mask, the watermark epoch or
\* gc_delete_keys.
InitRelease ==
    /\ InitTask
    /\ compaction_filter_mask = NoFlags
    /\ watermark = 0
    /\ ~gc_delete_keys

\* compact with the scheduling the tokio runtime gives the cleanup task the
\* guard spawned: once spawned, it runs.
SpecTaskFair == InitRelease /\ [][NextTask]_vars /\ WF_vars(RemoveWatermark)

\* ------------------------------------------------------------ LocalVersion
\* Epochs of shared buffers and of reads are 0..MaxLocalEpoch; committed
\* epochs stay below MaxLocalEpoch, as they stay below u64::MAX in the
\* program, so max_committed_epoch() + 1 does not wrap.
MaxLocalEpoch == 2
\* PinnedVersion objects created in one run, the first one included.
MaxVersions == 3
\* Concurrent read_version callers.
NumReaders == 1
\* Batches written into one shared buffer.
MaxWrites == 1

LocalEpochs == 0..MaxLocalEpoch
CommittedEpochs == 0..(MaxLocalEpoch - 1)
Readers == 1..NumReaders

\* The u64 epoch arithmetic of read_version.
EpochModulus == MaxLocalEpoch + 1
smallest_uncommitted_epoch(max_committed_epoch) ==
    (max_committed_epoch + 1) % EpochModulus

\* BTreeMap::default(): no shared buffer.
NoBuffers == [e \in {} |-> 0]

\* SharedBuffer::new: an empty buffer, counted in batches written.
EmptyBuffer == 0

\* A new_shared_buffer that always inserts a fresh buffer.
new_shared_buffer_replace(buffers, epoch) ==
    [e \in DOMAIN buffers \cup {epoch} |->
        IF e = epoch THEN EmptyBuffer ELSE buffers[e]]

\* shared_buffer.entry(epoch).or_insert_with(SharedBuffer::new).
new_shared_buffer(buffers, epoch) ==
    [e \in DOMAIN buffers \cup {epoch} |->
        IF e \in DOMAIN buffers THEN buffers[e] ELSE EmptyBuffer]

\* A retain that removes nothing.
retain_all(buffers, keep) == buffers

\* BTreeMap::retain with the predicate `keep`.
retain(buffers, keep) == [e \in DOMAIN buffers \cap keep |-> buffers[e]]

\* shared_buffer.range(lo..=hi).rev(), each buffer with its epoch.
RECURSIVE range_rev(_, _, _)
range_rev(buffers, lo, hi) ==
    IF hi < lo THEN <<>>
    ELSE (IF hi \in DOMAIN buffers
          THEN <<[epoch |-> hi, buffer |-> buffers[hi]]>> ELSE <<>>)
         \o range_rev(buffers, lo, hi - 1)

\* A read that starts at the committed epoch itself.
read_buffers_from_committed(buffers, max_committed_epoch, read_epoch) ==
    IF read_epoch >= max_committed_epoch
    THEN range_rev(buffers, max_committed_epoch, read_epoch)
    ELSE <<>>

\* The buffer list read_version collects under the read guard.
read_buffers(buffers, max_committed_epoch, read_epoch) ==
    IF read_epoch >= smallest_uncommitted_epoch(max_committed_epoch)
    THEN range_rev(buffers, smallest_uncommitted_epoch(max_committed_epoch),
                   read_epoch)
    ELSE <<>>

\* BTreeMap::keys(): ascending.
RECURSIVE keys(_, _)
keys(epochs, from) ==
    IF from > MaxLocalEpoch THEN <<>>
    ELSE (IF from \in epochs THEN <<from>> ELSE <<>>) \o keys(epochs, from + 1)

\* A drop of a handle that runs PinnedVersion::drop whatever the count.
drop_handle_eager(state, obj) ==
    [versions |-> [state.versions EXCEPT ![obj].handles = @ - 1],
     tx |-> Append(state.tx, [id |-> state.versions[obj].id, object |-> obj])]

\* Dropping one Arc<PinnedVersion>: the strong count goes down, and the last
\* drop runs PinnedVersion::drop, which sends the id on the unpin channel.
drop_handle(state, obj) ==
    [versions |-> [state.versions EXCEPT ![obj].handles = @ - 1],
     tx |-> IF state.versions[obj].handles = 1
            THEN Append(state.tx, [id |-> state.versions[obj].id, object |-> obj])
            ELSE state.tx]

IdleReader ==
    [pc |-> "idle", read_epoch |-> 0, pinned_version |-> 0, shared_buffer |-> <<>>,
     locked_pinned |-> 0, locked_buffers |-> NoBuffers]

\* compact_and_build_sst is not running.
BuildIdle ==
    /\ input = <<>>
    /\ kr = [left |-> EmptyKey, right |-> EmptyKey]
    /\ gc_delete_keys = FALSE
    /\ watermark = 0
    /\ compaction_filter = {}
    /\ iter = 0
    /\ last_key = EmptyKey
    /\ watermark_can_see_last_key = FALSE
    /\ sst_builder = NewBuilder
    /\ next_sst_id = 1
    /\ pc = "idle"

other_vars == <<input, kr, gc_delete_keys, watermark, compaction_filter, iter,
                last_key, watermark_can_see_last_key, sst_builder, next_sst_id,
                pc, task_vars, aux_vars>>

\* LocalVersion::new(version, unpin_worker_tx).
InitLocal ==
    /\ BuildIdle
    /\ TaskIdle
    /\ AuxIdle
    /\ \E mce \in CommittedEpochs :
          versions = <<[id |-> 1, max_committed_epoch |-> mce, handles |-> 1]>>
    /\ version_ids_in_use = {1}
    /\ pinned_version = 1
    /\ shared_buffer = NoBuffers
    /\ unpin_worker_tx = <<>>
    /\ readers = [r \in Readers |-> IdleReader]
    /\ last_call = <<>>

\* The LocalVersion has not been dropped.
Alive == pinned_version # 0

\* A write that does not wait for the read guards.
can_write_unlocked == Alive

\* RwLock::write: a &mut LocalVersion exists only while no read guard does.
can_write ==
    Alive /\ \A r \in Readers : readers[r].pc \notin {"guard", "cloned"}

\* new_shared_buffer(epoch, ..) under the write lock.
NewSharedBuffer(epoch) ==
    /\ can_write
    /\ shared_buffer' = new_shared_buffer(shared_buffer, epoch)
    /\ last_call' = <<[op |-> "new_shared_buffer", epoch |-> epoch,
                       returned |-> shared_buffer'[epoch]]>>
    /\ UNCHANGED <<other_vars, pinned_version, version_ids_in_use, versions,
                   unpin_worker_tx, readers>>

\* A writer takes the buffer of its epoch and writes a batch into it.
WriteBatch(epoch) ==
    /\ can_write
    /\ new_shared_buffer(shared_buffer, epoch)[epoch] < MaxWrites
    /\ shared_buffer' = [new_shared_buffer(shared_buffer, epoch) EXCEPT ![epoch] = @ + 1]
    /\ last_call' = <<[op |-> "write_batch", epoch |-> epoch,
                       returned |-> shared_buffer'[epoch]]>>
    /\ UNCHANGED <<other_vars, pinned_version, version_ids_in_use, versions,
                   unpin_worker_tx, readers>>

\* set_pinned_version(new_pinned_version) under the write lock; the manager
\* numbers its versions, so the new version carries the next id.
SetPinnedVersion(mce) ==
    /\ can_write
    /\ Len(versions) < MaxVersions
    /\ LET id == Len(versions) + 1
           advanced == versions[pinned_version].max_committed_epoch < mce
           cleaned_epoch ==
               IF advanced
               THEN keys({e \in DOMAIN shared_buffer : e <= mce}, 0)
               ELSE <<>>
           created == Append(versions,
                             [id |-> id, max_committed_epoch |-> mce, handles |-> 1])
           dropped == drop_handle([versions |-> created, tx |-> unpin_worker_tx],
                                  pinned_version)
       IN /\ shared_buffer' =
                 IF advanced
                 THEN retain(shared_buffer, {e \in LocalEpochs : e > mce})
                 ELSE shared_buffer
          /\ version_ids_in_use' = version_ids_in_use \cup {id}
          /\ pinned_version' = Len(created)
          /\ versions' = dropped.versions
          /\ unpin_worker_tx' = dropped.tx
          /\ last_call' = <<[op |-> "set_pinned_version", epoch |-> mce,
                             returned |-> cleaned_epoch]>>
    /\ UNCHANGED <<other_vars, readers>>

\* A clear that leaves the buffer of the newest epoch in the map.
clear_keep_newest(buffers) ==
    [e \in {x \in DOMAIN buffers : \A y \in DOMAIN buffers : y <= x} |-> buffers[e]]

\* BTreeMap::clear.
clear(buffers) == NoBuffers

\* clear_shared_buffer() under the write lock.
ClearSharedBuffer ==
    /\ can_write
    /\ shared_buffer' = clear(shared_buffer)
    /\ last_call' = <<[op |-> "clear_shared_buffer", epoch |-> 0,
                       returned |-> keys(DOMAIN shared_buffer, 0)]>>
    /\ UNCHANGED <<other_vars, pinned_version, version_ids_in_use, versions,
                   unpin_worker_tx, readers>>

\* read_version(this, read_epoch): this.read() returned the guard.
ReadLock(r, read_epoch) ==
    /\ Alive
    /\ readers[r].pc = "idle"
    /\ readers' = [readers EXCEPT ![r] =
                      [IdleReader EXCEPT !.pc = "guard",
                                         !.read_epoch = read_epoch,
                                         !.locked_pinned = pinned_version,
                                         !.locked_buffers = shared_buffer]]
    /\ UNCHANGED <<other_vars, shared_buffer, pinned_version, version_ids_in_use,
                   versions, unpin_worker_tx, last_call>>

\* read_version: guard.pinned_version.clone().
ClonePinned(r) ==
    /\ readers[r].pc = "guard"
    /\ readers' = [readers EXCEPT ![r].pc = "cloned",
                                  ![r].pinned_version = pinned_version]
    /\ versions' = [versions EXCEPT ![pinned_version].handles = @ + 1]
    /\ UNCHANGED <<other_vars, shared_buffer, pinned_version, version_ids_in_use,
                   unpin_worker_tx, last_call>>

\* read_version: the buffers are collected, the guard is released with
\* unlock_fair and the ReadVersion is returned.
CollectBuffers(r) ==
    /\ readers[r].pc = "cloned"
    /\ readers' = [readers EXCEPT
                      ![r].pc = "holding",
                      ![r].shared_buffer =
                          read_buffers(shared_buffer,
                              versions[readers[r].pinned_version].max_committed_epoch,
                              readers[r].read_epoch)]
    /\ UNCHANGED <<other_vars, shared_buffer, pinned_version, version_ids_in_use,
                   versions, unpin_worker_tx, last_call>>

\* The caller drops the ReadVersion.
DropReadVersion(r) ==
    /\ readers[r].pc = "holding"
    /\ LET dropped == drop_handle([versions |-> versions, tx |-> unpin_worker_tx],
                                  readers[r].pinned_version)
       IN /\ versions' = dropped.versions
          /\ unpin_worker_tx' = dropped.tx
    /\ readers' = [readers EXCEPT ![r] = IdleReader]
    /\ UNCHANGED <<other_vars, shared_buffer, pinned_version, version_ids_in_use,
                   last_call>>

\* The LocalVersion itself is dropped, and its handle with it.
DropLocalVersion ==
    /\ can_write
    /\ LET dropped == drop_handle([versions |-> versions, tx |-> unpin_worker_tx],
                                  pinned_version)
       IN /\ versions' = dropped.versions
          /\ unpin_worker_tx' = dropped.tx
    /\ pinned_version' = 0
    /\ shared_buffer' = NoBuffers
    /\ last_call' = <<>>
    /\ UNCHANGED <<other_vars, version_ids_in_use, readers>>

NextLocal ==
    \/ \E e \in 1..MaxLocalEpoch : NewSharedBuffer(e)
    \/ \E e \in 1..MaxLocalEpoch : WriteBatch(e)
    \/ \E mce \in CommittedEpochs : SetPinnedVersion(mce)
    \/ ClearSharedBuffer
    \/ \E r \in Readers, e \in LocalEpochs : ReadLock(r, e)
    \/ \E r \in Readers : ClonePinned(r)
    \/ \E r \in Readers : CollectBuffers(r)
    \/ \E r \in Readers : DropReadVersion(r)
    \/ DropLocalVersion

SpecLocal == InitLocal /\ [][NextLocal]_vars

\* ------------------------------------ CapacitySplitTableBuilder, by its API
\* Calls of add_full_key that are accepted in one run.
MaxAdds == 4

\* The entries handed to add_full_key; the builder itself compares no keys.
BuilderEntries ==
    {[key |-> <<1, 2>>, value |-> Put], [key |-> <<1, 1>>, value |-> Delete]}

\* The ids of the uploads spawned by the seal_current calls that led from
\* `before` to `after`: one tokio::spawn per SST pushed.
spawned(before, after) ==
    [n \in 1..(Len(after.sealed_builders) - Len(before.sealed_builders)) |->
        after.sealed_builders[Len(before.sealed_builders) + n].id]

builder_frame == <<input, kr, gc_delete_keys, watermark, compaction_filter, iter,
                   last_key, watermark_can_see_last_key, pc, task_vars, local_vars,
                   service_vars, serializer_vars, more_vars>>

\* CapacitySplitTableBuilder::new(get_id_and_builder, sstable_store).
InitBuilder ==
    /\ BuildIdle
    /\ TaskIdle
    /\ LocalIdle
    /\ AuxIdle

\* add_full_key(full_key, value, allow_split) returning Ok.
AddFullKey(entry, allow_split) ==
    /\ ~finished
    /\ Len(added) < MaxAdds
    /\ sst_builder' = add_full_key(sst_builder, entry, allow_split, next_sst_id)
    /\ next_sst_id' = IF NeedsOpen(sst_builder, allow_split)
                      THEN next_sst_id + 1 ELSE next_sst_id
    /\ factory_calls' = IF NeedsOpen(sst_builder, allow_split)
                        THEN Append(factory_calls, next_sst_id) ELSE factory_calls
    /\ upload_spawns' = upload_spawns \o spawned(sst_builder, sst_builder')
    /\ added' = Append(added, entry)
    /\ UNCHANGED <<builder_frame, finished, results>>

\* add_full_key returning Err: (self.get_id_and_builder)().await? failed.
AddFullKeyFail(entry, allow_split) ==
    /\ ~finished
    /\ Len(added) < MaxAdds
    /\ NeedsOpen(sst_builder, allow_split)
    /\ sst_builder' = SealIfDue(sst_builder, allow_split)
    /\ upload_spawns' = upload_spawns \o spawned(sst_builder, sst_builder')
    /\ UNCHANGED <<builder_frame, next_sst_id, factory_calls, added, finished,
                   results>>

\* seal_current().
SealCurrent ==
    /\ ~finished
    /\ sst_builder' = seal_current(sst_builder)
    /\ upload_spawns' = upload_spawns \o spawned(sst_builder, sst_builder')
    /\ UNCHANGED <<builder_frame, next_sst_id, factory_calls, added, finished,
                   results>>

\* finish(self): the builder is consumed and its sealed SSTs are returned.
FinishBuilder ==
    /\ ~finished
    /\ results' = finish(sst_builder)
    /\ sst_builder' = seal_current(sst_builder)
    /\ upload_spawns' = upload_spawns \o spawned(sst_builder, sst_builder')
    /\ finished' = TRUE
    /\ UNCHANGED <<builder_frame, next_sst_id, factory_calls, added>>

NextBuilder ==
    \/ \E entry \in BuilderEntries, allow_split \in BOOLEAN :
          AddFullKey(entry, allow_split)
    \/ \E entry \in BuilderEntries, allow_split \in BOOLEAN :
          AddFullKeyFail(entry, allow_split)
    \/ SealCurrent
    \/ FinishBuilder

SpecBuilder == InitBuilder /\ [][NextBuilder]_vars

\* ------------------------------------------------ Compactor::start_compactor
\* Task messages one run of the service loop receives.
MaxTasks == 2

TaskKinds == {"CompactTask", "VacuumTask", "FullScanTask"}

\* A select! that watches the shutdown channel only while waiting for a tick.
observes_shutdown_tick_only(at) == at = "tick_wait"

\* The two select! of the loop have a `&mut shutdown_rx` branch: the one
\* waiting for the interval and the one waiting for stream.message().
observes_shutdown(at) == at \in {"tick_wait", "consume"}

\* The oneshot receiver is ready: () was sent, or the sender was dropped.
Fired == shutdown_rx # "pending"

\* A loop that returns when the stream cannot be consumed.
return_on_failure == "exited"

\* continue 'start_stream: back to the select! on the interval.
continue_start_stream == "tick_wait"

\* A spawn whose JoinHandle the loop awaits.
spawn_joined(running, task) ==
    Append(running,
           [kind |-> task, state |-> "running", detached |-> FALSE,
            in_flight_at_shutdown |-> FALSE,
            after_failure |-> \E h \in DOMAIN running :
                                 running[h].state \in {"failed", "panicked"}])

\* tokio::spawn(process_task(..)) with the JoinHandle dropped: the handler
\* runs detached from the loop.
spawn(running, task) ==
    Append(running,
           [kind |-> task, state |-> "running", detached |-> TRUE,
            in_flight_at_shutdown |-> FALSE,
            after_failure |-> \E h \in DOMAIN running :
                                 running[h].state \in {"failed", "panicked"}])

\* What a handler in `state` can do next. Compactor::compact calls
\* compact_done (the report) and returns, or panics in
\* `join_handle.await.unwrap()` before it; vacuum and full_scan return
\* with or without an error, or panic.
handler_steps(kind, state) ==
    IF state # "running" /\ state # "reported" THEN {}
    ELSE IF kind = "CompactTask"
         THEN (IF state = "running" THEN {"reported", "panicked"} ELSE {"done"})
         ELSE (IF state = "running" THEN {"done", "failed", "panicked"} ELSE {})

service_frame == <<input, kr, gc_delete_keys, watermark, compaction_filter, iter,
                   last_key, watermark_can_see_last_key, sst_builder, next_sst_id,
                   pc, task_vars, local_vars, builder_api_vars, serializer_vars,
                   more_vars>>

\* start_compactor returned (join_handle, shutdown_tx): the loop is at its
\* first select!.
InitService ==
    /\ BuildIdle
    /\ TaskIdle
    /\ LocalIdle
    /\ BuilderApiIdle
    /\ SerializerIdle
    /\ MoreIdle
    /\ service_pc = "tick_wait"
    /\ shutdown_rx = "pending"
    /\ handlers = <<>>
    /\ last_failure = "none"
    /\ last_message = "none"
    /\ observed_at = "none"

\* shutdown_tx.send(()) by the owner of the compactor.
Shutdown ==
    /\ shutdown_rx = "pending"
    /\ shutdown_rx' = "sent"
    /\ handlers' = [h \in DOMAIN handlers |->
                       [handlers[h] EXCEPT !.in_flight_at_shutdown =
                           handlers[h].state \in {"running", "reported"}]]
    /\ UNCHANGED <<service_frame, service_pc, last_failure, last_message,
                   observed_at>>

\* shutdown_tx is dropped without a send: the receiver resolves as well.
DropSender ==
    /\ shutdown_rx = "pending"
    /\ shutdown_rx' = "closed"
    /\ handlers' = [h \in DOMAIN handlers |->
                       [handlers[h] EXCEPT !.in_flight_at_shutdown =
                           handlers[h].state \in {"running", "reported"}]]
    /\ UNCHANGED <<service_frame, service_pc, last_failure, last_message,
                   observed_at>>

\* select!: min_interval.tick() completed.
Tick ==
    /\ service_pc = "tick_wait"
    /\ service_pc' = "subscribing"
    /\ UNCHANGED <<service_frame, shutdown_rx, handlers, last_failure,
                   last_message, observed_at>>

\* select!: the shutdown branch completed; the loop returns.
ShutdownObserved ==
    /\ observes_shutdown(service_pc)
    /\ Fired
    /\ observed_at' = service_pc
    /\ service_pc' = "exited"
    /\ UNCHANGED <<service_frame, shutdown_rx, handlers, last_failure,
                   last_message>>

\* subscribe_compact_tasks().await returned Ok(stream).
SubscribeOk ==
    /\ service_pc = "subscribing"
    /\ service_pc' = "consume"
    /\ last_message' = "none"
    /\ UNCHANGED <<service_frame, shutdown_rx, handlers, last_failure,
                   observed_at>>

\* subscribe_compact_tasks().await returned Err.
SubscribeFail ==
    /\ service_pc = "subscribing"
    /\ service_pc' = continue_start_stream
    /\ last_failure' = "subscribe_failed"
    /\ UNCHANGED <<service_frame, shutdown_rx, handlers, last_message,
                   observed_at>>

\* stream.message() yielded a response that carries a task.
ReceiveTask(task) ==
    /\ service_pc = "consume"
    /\ Len(handlers) < MaxTasks
    /\ handlers' = spawn(handlers, task)
    /\ last_message' = "task"
    /\ UNCHANGED <<service_frame, service_pc, shutdown_rx, last_failure,
                   observed_at>>

\* stream.message() yielded a response without a task.
ReceiveNoTask ==
    /\ service_pc = "consume"
    /\ last_message' = "no_task"
    /\ UNCHANGED <<service_frame, service_pc, shutdown_rx, handlers,
                   last_failure, observed_at>>

\* stream.message() yielded Err.
StreamError ==
    /\ service_pc = "consume"
    /\ service_pc' = continue_start_stream
    /\ last_failure' = "stream_error"
    /\ UNCHANGED <<service_frame, shutdown_rx, handlers, last_message,
                   observed_at>>

\* stream.message() yielded Ok(None): the stream is exhausted.
StreamEnd ==
    /\ service_pc = "consume"
    /\ service_pc' = continue_start_stream
    /\ last_failure' = "stream_end"
    /\ UNCHANGED <<service_frame, shutdown_rx, handlers, last_message,
                   observed_at>>

\* A spawned handler moves on; the loop hears of it only if it awaits the
\* JoinHandle.
HandlerStep(h, to) ==
    /\ to \in handler_steps(handlers[h].kind, handlers[h].state)
    /\ handlers' = [handlers EXCEPT ![h].state = to]
    /\ service_pc' = IF ~handlers[h].detached /\ to = "panicked"
                     THEN "exited" ELSE service_pc
    /\ UNCHANGED <<service_frame, shutdown_rx, last_failure, last_message,
                   observed_at>>

NextService ==
    \/ Shutdown
    \/ DropSender
    \/ Tick
    \/ ShutdownObserved
    \/ SubscribeOk
    \/ SubscribeFail
    \/ \E task \in TaskKinds : ReceiveTask(task)
    \/ ReceiveNoTask
    \/ StreamError
    \/ StreamEnd
    \/ \E h \in DOMAIN handlers,
          to \in {"reported", "done", "failed", "panicked"} : HandlerStep(h, to)

\* The interval ticks, the subscribe call returns, and a select! with the
\* shutdown branch ready again and again takes it in the end (select! polls
\* its branches in random order).
SpecService ==
    /\ InitService
    /\ [][NextService]_vars
    /\ WF_vars(Tick)
    /\ WF_vars(SubscribeOk \/ SubscribeFail)
    /\ SF_vars(ShutdownObserved)

\* ------------------------------------------- DedupPkCellBasedRowSerializer
\* Columns of the table.
MaxColumns == 3

\* Column ids of the catalog; a table's columns have distinct ids.
ColumnIdPool == {5, 6, 7}

\* DataType: one type whose memcomparable encoding equals its value
\* encoding and one for which it differs.
DataTypes == {"Int32", "Float64"}
mem_cmp_eq_value_enc(data_type) == data_type = "Int32"

\* A datum is None or a value of its column's type.
NoneDatum == [type |-> "None", v |-> 0]
DatumValues == {1, 2}

\* Row indices are 0-based in the program: index i is position i + 1.
Indices(n) == 0..(n - 1)

\* A serializer that keeps the columns outside the pk only.
keeps_non_pk(i, pk, descs) == i \notin pk

\* The filter of DedupPkCellBasedRowSerializer::new.
keeps(i, pk, descs) ==
    i \notin pk \/ ~mem_cmp_eq_value_enc(descs[i + 1].data_type)

\* new: dedup_datum_indices.
dedup_datum_indices(pk, descs) ==
    {i \in Indices(Len(descs)) : keeps(i, pk, descs)}

\* filter_by_dedup_datum_indices: iter.enumerate().filter(..).map(..), the
\* items of `items` from position `at` on.
RECURSIVE filter_by_dedup_datum_indices(_, _, _)
filter_by_dedup_datum_indices(indices, items, at) ==
    IF at > Len(items) THEN <<>>
    ELSE (IF (at - 1) \in indices THEN <<items[at]>> ELSE <<>>)
         \o filter_by_dedup_datum_indices(indices, items, at + 1)

remove_dup_pk_datums(indices, r) == filter_by_dedup_datum_indices(indices, r, 1)
remove_dup_pk_column_ids(indices, ids) == filter_by_dedup_datum_indices(indices, ids, 1)

\* The value encoding of a datum: the payload without its type.
serialize_datum(datum) == <<datum.v>>
deserialize_datum(data_type, bytes) == [type |-> data_type, v |-> bytes[1]]

\* The cell that marks the row itself.
DelimiterCell == [column_id |-> 0, value |-> <<>>]

\* CellBasedRowSerializer::serialize: datum j goes under column id j, None
\* datums give no cell, and the delimiter cell closes the row.
RECURSIVE inner_serialize(_, _, _)
inner_serialize(ids, r, at) ==
    IF at > Len(r) \/ at > Len(ids) THEN <<DelimiterCell>>
    ELSE (IF r[at] # NoneDatum
          THEN <<[column_id |-> ids[at], value |-> serialize_datum(r[at])]>>
          ELSE <<>>)
         \o inner_serialize(ids, r, at + 1)

\* The cell based row deserializer built for `descs`: a cell is decoded
\* with the type of the column that carries its id, columns without a cell
\* are None, and take() gives a row once a cell has been seen.
cell_of(descs, j, serialized) ==
    {n \in DOMAIN serialized : serialized[n].column_id = descs[j].column_id}

deserialize(descs, serialized) ==
    IF serialized = <<>> THEN <<>>
    ELSE <<[j \in DOMAIN descs |->
              IF cell_of(descs, j, serialized) = {} THEN NoneDatum
              ELSE deserialize_datum(
                       descs[j].data_type,
                       serialized[CHOOSE n \in cell_of(descs, j, serialized) :
                                      \A k \in cell_of(descs, j, serialized) : k <= n].value)]>>

\* The column descs of the compact deserializer: those of the columns that
\* are outside the pk or whose memcomparable encoding is not their value
\* encoding, in the order of the table.
compact_descs(pk, descs) ==
    filter_by_dedup_datum_indices(
        {i \in Indices(Len(descs)) :
            i \notin pk \/ ~mem_cmp_eq_value_enc(descs[i + 1].data_type)},
        descs, 1)

\* The tables tried: up to MaxColumns columns with distinct ids, any types.
ColumnDescs ==
    UNION {{d \in [1..n -> [column_id : ColumnIdPool, data_type : DataTypes]] :
               \A a, b \in 1..n : a # b => d[a].column_id # d[b].column_id} :
           n \in 1..MaxColumns}

RowsOf(descs) ==
    {r \in [DOMAIN descs -> {NoneDatum} \cup [type : DataTypes, v : DatumValues]] :
        \A j \in DOMAIN descs : r[j] = NoneDatum \/ r[j].type = descs[j].data_type}

serializer_frame == <<input, kr, gc_delete_keys, watermark, compaction_filter,
                      iter, last_key, watermark_can_see_last_key, sst_builder,
                      next_sst_id, pc, task_vars, local_vars, builder_api_vars,
                      service_vars, more_vars>>

\* The arguments of new and the row: any pk over the columns, column_ids
\* taken from the column descs as the callers do.
InitSerializer ==
    /\ BuildIdle
    /\ TaskIdle
    /\ LocalIdle
    /\ BuilderApiIdle
    /\ ServiceIdle
    /\ MoreIdle
    /\ column_descs \in ColumnDescs
    /\ pk_indices \in SUBSET Indices(Len(column_descs))
    /\ column_ids = [j \in DOMAIN column_descs |-> column_descs[j].column_id]
    /\ row \in RowsOf(column_descs)
    /\ serializer = <<>>
    /\ cells = <<>>
    /\ deserialized = <<>>
    /\ ser_pc = "new"

\* DedupPkCellBasedRowSerializer::new(pk_indices, column_descs, column_ids).
New ==
    /\ ser_pc = "new"
    /\ LET indices == dedup_datum_indices(pk_indices, column_descs)
       IN serializer' =
              <<[dedup_datum_indices |-> indices,
                 inner |-> remove_dup_pk_column_ids(indices, column_ids)]>>
    /\ ser_pc' = "serialize"
    /\ UNCHANGED <<serializer_frame, pk_indices, column_descs, column_ids, row,
                   cells, deserialized>>

\* serialize(pk, row): remove_dup_pk_datums, then inner.serialize.
Serialize ==
    /\ ser_pc = "serialize"
    /\ cells' = inner_serialize(
                    serializer[1].inner,
                    remove_dup_pk_datums(serializer[1].dedup_datum_indices, row), 1)
    /\ ser_pc' = "deserialize"
    /\ UNCHANGED <<serializer_frame, pk_indices, column_descs, column_ids, row,
                   serializer, deserialized>>

\* The cells are fed to the deserializer made for the compact column descs:
\* column_descs without the columns the serializer left out.
Deserialize ==
    /\ ser_pc = "deserialize"
    /\ deserialized' = deserialize(compact_descs(pk_indices, column_descs), cells)
    /\ ser_pc' = "done"
    /\ UNCHANGED <<serializer_frame, pk_indices, column_descs, column_ids, row,
                   serializer, cells>>

NextSerializer == New \/ Serialize \/ Deserialize

SpecSerializer == InitSerializer /\ [][NextSerializer]_vars

\* ----------------------------------- MultiCompactionFilter, by its interface
\* should_delete calls followed in one run.
MaxVerdicts == 2

\* Everything but the filter chains, the table registry and the notification
\* service.
core_frame == <<input, kr, gc_delete_keys, watermark, compaction_filter, iter,
                last_key, watermark_can_see_last_key, sst_builder, next_sst_id, pc,
                task_vars, local_vars, builder_api_vars, service_vars,
                serializer_vars>>

CoreIdle ==
    /\ BuildIdle
    /\ TaskIdle
    /\ LocalIdle
    /\ BuilderApiIdle
    /\ ServiceIdle
    /\ SerializerIdle

\* should_delete of one registered filter.
filter_should_delete(filter, k) ==
    IF filter = "StateCleanUpCompactionFilter"
    THEN should_delete(StateCleanUpCompactionFilter(FullKeys), k)
    ELSE should_delete(TTLCompactionFilter(FullKeys), k)

\* A chain that deletes a key only when every registered filter does.
multi_should_delete_all(chain, k) ==
    \A n \in DOMAIN chain : filter_should_delete(chain[n], k)

\* MultiCompactionFilter::should_delete: the registered filters are asked in
\* registration order, and the first one that deletes ends the call.
RECURSIVE multi_should_delete(_, _)
multi_should_delete(chain, k) ==
    IF chain = <<>> THEN FALSE
    ELSE IF filter_should_delete(Head(chain), k) THEN TRUE
    ELSE multi_should_delete(Tail(chain), k)

\* MultiCompactionFilter::register.
register(chain, filter) == Append(chain, filter)

\* compact, from MultiCompactionFilter::default() to the last register.
build_multi_filter(mask) ==
    LET compaction_filter_flag == unwrap_or_default(from_bits(mask))
        c0 == <<>>
        c1 == IF contains(compaction_filter_flag, STATE_CLEAN)
              THEN register(c0, "StateCleanUpCompactionFilter") ELSE c0
    IN IF contains(compaction_filter_flag, TTL)
       THEN register(c1, "TTLCompactionFilter") ELSE c1

filter_frame == <<core_frame, table_vars, notify_vars>>

\* A task's mask; existing_table_ids, table_options and current_epoch_time
\* are those of the filters above.
InitFilter ==
    /\ CoreIdle
    /\ TablesIdle
    /\ NotifyIdle
    /\ chain_mask \in Masks
    /\ filters = <<>>
    /\ verdicts = <<>>

\* The chain is built from the task: once by a first call of compact, once
\* more by a second one with the same task.
BuildChain ==
    /\ Len(filters) < 2
    /\ filters' = Append(filters, build_multi_filter(chain_mask))
    /\ UNCHANGED <<filter_frame, chain_mask, verdicts>>

\* compaction_filter.should_delete(iter_key) on chain c.
ShouldDelete(c, k) ==
    /\ c \in DOMAIN filters
    /\ Len(verdicts) < MaxVerdicts
    /\ verdicts' = Append(verdicts,
                          [chain |-> c, key |-> k,
                           deleted |-> multi_should_delete(filters[c], k)])
    /\ UNCHANGED <<filter_frame, chain_mask, filters>>

NextFilter ==
    \/ BuildChain
    \/ \E c \in 1..2, k \in FullKeys : ShouldDelete(c, k)

SpecFilter == InitFilter /\ [][NextFilter]_vars

\* ------------------------------------------------------- SimpleTableManager
\* Table ids the callers use.
MaxTableId == 2

TableIds == 1..MaxTableId

\* What a caller passes as columns to create_materialized_view: no column,
\* columns Schema::try_from rejects, columns it accepts.
ColumnLists == {"empty", "invalid", "valid"}

\* MViewTable::new_batch(Keyspace::table_root(store, table_id), ..).
new_batch(tid) == [kind |-> "batch", keyspace |-> tid]

\* MViewTable::new(Keyspace::table_root(store, table_id), schema, ..).
new_mview(tid) == [kind |-> "mview", keyspace |-> tid]

contains_key(map, k) == k \in DOMAIN map

\* HashMap::insert: the entry of k is set, whether k was present or not.
insert(map, k, v) == [x \in DOMAIN map \cup {k} |-> IF x = k THEN v ELSE map[x]]

\* HashMap::remove.
remove(map, k) == [x \in DOMAIN map \ {k} |-> map[x]]

table_frame == <<core_frame, filter_vars, notify_vars>>

\* SimpleTableManager::new: an empty registry, no call made yet.
InitTables ==
    /\ CoreIdle
    /\ FilterIdle
    /\ NotifyIdle
    /\ tables = <<>>
    /\ table_call = <<>>

\* The record of a call: its arguments, its result and the registry it found.
Call(op, tid, associated_table_id, result) ==
    [op |-> op, table_id |-> tid, associated_table_id |-> associated_table_id,
     result |-> result, before |-> tables]

CreateTableV2(tid) ==
    /\ IF contains_key(tables, tid)
       THEN /\ tables' = tables
            /\ table_call' = Call("create_table_v2", tid, 0, "Err")
       ELSE /\ tables' = insert(tables, tid, new_batch(tid))
            /\ table_call' = Call("create_table_v2", tid, 0, "Ok")
    /\ UNCHANGED table_frame

GetTable(tid) ==
    /\ table_call' = Call("get_table", tid, 0,
                          IF contains_key(tables, tid) THEN "Ok" ELSE "Err")
    /\ UNCHANGED <<table_frame, tables>>

DropTable(tid) ==
    /\ IF contains_key(tables, tid)
       THEN /\ tables' = remove(tables, tid)
            /\ table_call' = Call("drop_table", tid, 0, "Ok")
       ELSE /\ tables' = tables
            /\ table_call' = Call("drop_table", tid, 0, "Err")
    /\ UNCHANGED table_frame

CreateMaterializedView(tid, columns) ==
    /\ IF contains_key(tables, tid) \/ columns # "valid"
       THEN /\ tables' = tables
            /\ table_call' = Call("create_materialized_view", tid, 0, "Err")
       ELSE /\ tables' = insert(tables, tid, new_mview(tid))
            /\ table_call' = Call("create_materialized_view", tid, 0, "Ok")
    /\ UNCHANGED table_frame

RegisterAssociatedMaterializedView(associated_table_id, mview_id) ==
    /\ IF contains_key(tables, associated_table_id)
       THEN /\ tables' = insert(tables, mview_id, tables[associated_table_id])
            /\ table_call' = Call("register_associated_materialized_view",
                                  mview_id, associated_table_id, "Ok")
       ELSE /\ tables' = tables
            /\ table_call' = Call("register_associated_materialized_view",
                                  mview_id, associated_table_id, "Err")
    /\ UNCHANGED table_frame

\* drop_materialized_view is drop_table.
DropMaterializedView(tid) ==
    /\ IF contains_key(tables, tid)
       THEN /\ tables' = remove(tables, tid)
            /\ table_call' = Call("drop_materialized_view", tid, 0, "Ok")
       ELSE /\ tables' = tables
            /\ table_call' = Call("drop_materialized_view", tid, 0, "Err")
    /\ UNCHANGED table_frame

NextTables ==
    \/ \E id \in TableIds : CreateTableV2(id)
    \/ \E id \in TableIds : GetTable(id)
    \/ \E id \in TableIds : DropTable(id)
    \/ \E id \in TableIds, columns \in ColumnLists : CreateMaterializedView(id, columns)
    \/ \E a, mv \in TableIds : RegisterAssociatedMaterializedView(a, mv)
    \/ \E id \in TableIds : DropMaterializedView(id)

SpecTables == InitTables /\ [][NextTables]_vars

\* -------------------------------------------- NotificationService::subscribe
\* subscribe calls followed in one run.
MaxSubscribes == 2
\* Notifications the manager sends in one run.
MaxNotifies == 2

\* WorkerType values subscribe has an arm for, and one it has none for.
SnapshotWorkerTypes == {"Frontend", "Compactor", "ComputeNode"}
OtherWorkerTypes == {"RiseCtl"}
Hosts == {"h1"}

NoVersion == <<>>

\* What the managers hold while subscribe has their guards: the catalog, the
\* users, the running compute nodes, the current hummock version and the
\* tables being created.
Cores ==
    [database : {{"db"}}, schema : {{"sc"}}, source : {{"src"}}, sink : {{"snk"}},
     index : {{"idx"}}, table : {{}, {"t"}}, users : {{"u"}}, nodes : {{"cn"}},
     hummock_version : {7, 8}, processing_table : {{}, {"p"}}]

\* MetaSnapshot::default().
DefaultSnapshot ==
    [nodes |-> {}, database |-> {}, schema |-> {}, source |-> {}, sink |-> {},
     table |-> {}, users |-> {}, hummock_version |-> NoVersion, index |-> {}]

\* The match on worker_type that builds meta_snapshot.
meta_snapshot(worker_type, c) ==
    IF worker_type = "Frontend"
    THEN [nodes |-> c.nodes, database |-> c.database, schema |-> c.schema,
          source |-> c.source, sink |-> c.sink, table |-> c.table,
          users |-> c.users, hummock_version |-> NoVersion, index |-> c.index]
    ELSE IF worker_type = "Compactor"
    THEN [DefaultSnapshot EXCEPT !.table = c.table \cup c.processing_table]
    ELSE [DefaultSnapshot EXCEPT !.table = c.table \cup c.processing_table,
                                 !.hummock_version = <<c.hummock_version>>]

\* A subscribe that registers the sender before it sends the snapshot.
subscribe_steps_register_first == <<"insert_sender", "send">>

\* The tail of subscribe: tx.send(Snapshot), then insert_sender(..).await.
subscribe_steps == <<"send", "insert_sender">>

\* NotificationManager::insert_sender: the sender of a worker key is set.
insert_sender(map, worker_type, host, tx) ==
    {x \in map : ~(x.worker_type = worker_type /\ x.host = host)}
        \cup {[worker_type |-> worker_type, host |-> host, tx |-> tx]}

notify_frame == <<core_frame, filter_vars, table_vars>>

InitNotify ==
    /\ CoreIdle
    /\ FilterIdle
    /\ TablesIdle
    /\ core \in Cores
    /\ subscriptions = <<>>
    /\ streams = <<>>
    /\ senders = {}
    /\ notified = 0

\* subscribe up to the match: the channel is made, the guards are taken and
\* the snapshot of the worker type is built.
SubscribeBuild(worker_type, host) ==
    /\ Len(subscriptions) < MaxSubscribes
    /\ subscriptions' = Append(subscriptions,
                               [worker_type |-> worker_type, host |-> host,
                                at |-> "built", done |-> 0,
                                meta_snapshot |-> meta_snapshot(worker_type, core)])
    /\ streams' = Append(streams, <<>>)
    /\ UNCHANGED <<notify_frame, core, senders, notified>>

\* subscribe returns a Status: get_worker_type, get_host or get_catalog
\* failed.  The channel, if made, is dropped.
SubscribeRejected(worker_type, host) ==
    /\ Len(subscriptions) < MaxSubscribes
    /\ subscriptions' = Append(subscriptions,
                               [worker_type |-> worker_type, host |-> host,
                                at |-> "rejected", done |-> 0,
                                meta_snapshot |-> DefaultSnapshot])
    /\ streams' = Append(streams, <<>>)
    /\ UNCHANGED <<notify_frame, core, senders, notified>>

\* A worker type with no arm: unreachable!() panics.
SubscribeUnreachable(worker_type, host) ==
    /\ Len(subscriptions) < MaxSubscribes
    /\ subscriptions' = Append(subscriptions,
                               [worker_type |-> worker_type, host |-> host,
                                at |-> "panicked", done |-> 0,
                                meta_snapshot |-> DefaultSnapshot])
    /\ streams' = Append(streams, <<>>)
    /\ UNCHANGED <<notify_frame, core, senders, notified>>

\* The next step of the tail of subscribe call s; after the last one the
\* stream is returned.
SubscribeStep(s) ==
    /\ s \in DOMAIN subscriptions
    /\ subscriptions[s].at = "built"
    /\ LET step == subscribe_steps[subscriptions[s].done + 1] IN
       /\ streams' = IF step = "send"
                     THEN [streams EXCEPT ![s] =
                              Append(@, [operation |-> "Snapshot",
                                         info |-> subscriptions[s].meta_snapshot])]
                     ELSE streams
       /\ senders' = IF step = "insert_sender"
                     THEN insert_sender(senders, subscriptions[s].worker_type,
                                        subscriptions[s].host, s)
                     ELSE senders
    /\ subscriptions' = [subscriptions EXCEPT
                            ![s].done = @ + 1,
                            ![s].at = IF subscriptions[s].done + 1 = Len(subscribe_steps)
                                      THEN "returned" ELSE @]
    /\ UNCHANGED <<notify_frame, core, notified>>

\* The notification manager sends an update to the registered senders of a
\* worker type.
Notify(worker_type) ==
    /\ notified < MaxNotifies
    /\ notified' = notified + 1
    /\ streams' = [s \in DOMAIN streams |->
                      IF \E x \in senders : x.tx = s /\ x.worker_type = worker_type
                      THEN Append(streams[s], [operation |-> "Update",
                                               info |-> notified + 1])
                      ELSE streams[s]]
    /\ UNCHANGED <<notify_frame, core, subscriptions, senders>>

NextNotify ==
    \/ \E w \in SnapshotWorkerTypes, h \in Hosts : SubscribeBuild(w, h)
    \/ \E w \in SnapshotWorkerTypes, h \in Hosts : SubscribeRejected(w, h)
    \/ \E w \in OtherWorkerTypes, h \in Hosts : SubscribeUnreachable(w, h)
    \/ \E s \in 1..MaxSubscribes : SubscribeStep(s)
    \/ \E w \in SnapshotWorkerTypes : Notify(w)

SpecNotify == InitNotify /\ [][NextNotify]_vars

\* ------------------------------------------------------------ properties
\* The SSTs the builder holds, sealed ones first, the open one last.
SstsOf(sb) ==
    sb.sealed_builders \o
    (IF sb.current_builder # NoBuilder THEN <<sb.current_builder[1]>> ELSE <<>>)

EntrySet(ssts) ==
    UNION {{ssts[i].entries[j] : j \in DOMAIN ssts[i].entries} : i \in DOMAIN ssts}

RECURSIVE Concat(_)
Concat(ssts) ==
    IF ssts = <<>> THEN <<>> ELSE ssts[1].entries \o Concat(Tail(ssts))

StrictlyIncreasing(run) ==
    \A i \in 1..(Len(run) - 1) : compare_key(run[i].key, run[i + 1].key) = Less

InRange(k, range) ==
    /\ (range.left # EmptyKey => compare_key(k, range.left) # Less)
    /\ (range.right # EmptyKey => compare_key(k, range.right) = Less)

Output == EntrySet(sst_builder.sealed_builders)

UserKeysOf(sst) == {user_key(sst.entries[j].key) : j \in DOMAIN sst.entries}

\* C1: once the split is built, every input entry inside the key range whose
\* epoch is above the watermark and which the filter does not veto is in the
\* output with its value, for both values of gc_delete_keys and for Put and
\* Delete alike.
C1_LiveVersionsRetained ==
    pc = "done" =>
        \A i \in DOMAIN input :
            ( /\ InRange(input[i].key, kr)
              /\ get_epoch(input[i].key) > watermark
              /\ ~should_delete(compaction_filter, input[i].key) )
            => input[i] \in Output

\* A tombstone above the watermark survives a run with gc_delete_keys set,
\* while an older version of its user key inside the range is dropped.
C1_Witness ==
    /\ pc = "done"
    /\ gc_delete_keys
    /\ \E i, j \in DOMAIN input :
        /\ i < j
        /\ InRange(input[i].key, kr) /\ InRange(input[j].key, kr)
        /\ get_epoch(input[i].key) > watermark
        /\ is_delete(input[i].value)
        /\ input[i] \in Output
        /\ same_user_key(input[i].key, input[j].key)
        /\ input[j] \notin Output

\* C2 (as claimed): per user key the output holds at most one entry at or
\* below the watermark, and it is the largest epoch <= watermark of the input
\* for that key that is not a collapsed tombstone.
CollapsedTombstone(e) ==
    get_epoch(e.key) <= watermark /\ gc_delete_keys /\ is_delete(e.value)

AtOrBelow(entries, u) ==
    {e \in entries : user_key(e.key) = u /\ get_epoch(e.key) <= watermark}

C2_OneSurvivorIsNewest ==
    pc = "done" =>
        \A u \in UserKeys :
            LET outs == AtOrBelow(Output, u)
                ins == {e \in AtOrBelow(EntrySet(<<[entries |-> input]>>), u) :
                            ~CollapsedTombstone(e)}
            IN /\ Cardinality(outs) <= 1
               /\ \A o \in outs : \A e \in ins : get_epoch(e.key) <= get_epoch(o.key)

\* C3 (as claimed): a Delete at epoch e <= watermark with gc_delete_keys set
\* leaves no output entry of its user key at any epoch <= e, unless an entry
\* of that key above e survives.
C3_TombstoneCollapse ==
    pc = "done" =>
        \A i \in DOMAIN input :
            ( /\ is_delete(input[i].value)
              /\ get_epoch(input[i].key) <= watermark
              /\ gc_delete_keys
              /\ ~\E o \in Output :
                    /\ same_user_key(o.key, input[i].key)
                    /\ get_epoch(o.key) > get_epoch(input[i].key) )
            => ~\E o \in Output :
                    /\ same_user_key(o.key, input[i].key)
                    /\ get_epoch(o.key) <= get_epoch(input[i].key)

\* C4 (as claimed): with gc_delete_keys = false and a filter that vetoes
\* nothing, every Delete of the input inside the key range is in the output.
C4_EveryTombstoneSurvives ==
    (pc = "done" /\ ~gc_delete_keys /\ compaction_filter = {}) =>
        \A i \in DOMAIN input :
            (InRange(input[i].key, kr) /\ is_delete(input[i].value))
            => input[i] \in Output

\* A version is shadowed when a newer version of its user key with an epoch
\* at or below the watermark lies at or after kr.left.
Shadowed(i) ==
    \E j \in 1..(i - 1) :
        /\ same_user_key(input[j].key, input[i].key)
        /\ get_epoch(input[j].key) <= watermark
        /\ (kr.left # EmptyKey => compare_key(input[j].key, kr.left) # Less)

\* C4 (amended): with gc_delete_keys = false, a Delete inside the key range
\* that the filter does not veto is in the output exactly when it is not
\* shadowed.
C4_UnshadowedTombstonesSurvive ==
    (pc = "done" /\ ~gc_delete_keys) =>
        \A i \in DOMAIN input :
            ( /\ InRange(input[i].key, kr)
              /\ is_delete(input[i].value)
              /\ ~should_delete(compaction_filter, input[i].key) )
            => (input[i] \in Output <=> ~Shadowed(i))

\* With gc_delete_keys = false one tombstone at or below the watermark is
\* kept and an older tombstone of the same user key is dropped as shadowed.
C4_Witness ==
    /\ pc = "done"
    /\ ~gc_delete_keys
    /\ \E i, j \in DOMAIN input :
        /\ i < j
        /\ same_user_key(input[i].key, input[j].key)
        /\ is_delete(input[i].value) /\ is_delete(input[j].value)
        /\ InRange(input[i].key, kr) /\ InRange(input[j].key, kr)
        /\ get_epoch(input[i].key) <= watermark
        /\ input[i] \in Output
        /\ input[j] \notin Output
        /\ ~should_delete(compaction_filter, input[j].key)

\* C5: at every moment no two SSTs of the builder (sealed or open) hold
\* entries of the same user key.
C5_NoSharedUserKey ==
    LET ssts == SstsOf(sst_builder) IN
    \A i, j \in DOMAIN ssts :
        i # j => UserKeysOf(ssts[i]) \cap UserKeysOf(ssts[j]) = {}

\* Two SSTs were sealed, and one of them is over capacity because the
\* versions of one user key went in with allow_split false.
C5_Witness ==
    /\ pc = "done"
    /\ Len(sst_builder.sealed_builders) >= 2
    /\ \E s \in DOMAIN sst_builder.sealed_builders :
          /\ Len(sst_builder.sealed_builders[s].entries) > Capacity
          /\ Cardinality(UserKeysOf(sst_builder.sealed_builders[s])) = 1

\* C6: the keys of the split's output SSTs, concatenated in sealing order,
\* are strictly increasing in full-key order.
C6_OutputStrictlyIncreasing ==
    pc = "done" => StrictlyIncreasing(Concat(sst_builder.sealed_builders))

\* Two SSTs were sealed with an input entry dropped between their entries.
C6_Witness ==
    /\ pc = "done"
    /\ Len(sst_builder.sealed_builders) >= 2
    /\ \E i \in 2..(Len(input) - 1) :
        /\ input[i] \notin Output
        /\ input[i - 1] \in Output
        /\ input[i + 1] \in Output

\* C8 (as claimed): every entry the sub-task wrote lies inside the split's
\* key range: at or after kr.left and before kr.right.
C8_OutputInsideKeyRange ==
    pc = "done" => \A e \in Output : InRange(e.key, kr)

UserKeysOfSsts(ssts) == UNION {UserKeysOf(ssts[i]) : i \in DOMAIN ssts}

\* C7 (as claimed): no user key appears in the output of two different
\* splits of a task whose splits partition the key space.
C7_SplitsDisjoint ==
    \A i, j \in DOMAIN sub_task :
        (i # j /\ sub_task[i].kind = "Ok" /\ sub_task[j].kind = "Ok")
        => UserKeysOfSsts(sub_task[i].ssts) \cap UserKeysOfSsts(sub_task[j].ssts) = {}

\* The SSTs the sub-tasks returned with Ok, by ascending split index.
RECURSIVE OkSstsFrom(_)
OkSstsFrom(i) ==
    IF i > Len(sub_task) THEN <<>>
    ELSE (IF sub_task[i].kind = "Ok" THEN sub_task[i].ssts ELSE <<>>)
         \o OkSstsFrom(i + 1)

\* C9 (as claimed): the reported sorted_output_ssts lists the SSTs by
\* ascending split index and, within a split, in the order they were built,
\* and concatenating them yields global full-key order.
C9_ReportInGlobalKeyOrder ==
    report # <<>> =>
        /\ report[1].sorted_output_ssts = OkSstsFrom(1)
        /\ StrictlyIncreasing(Concat(report[1].sorted_output_ssts))

\* Something went wrong for the task: the watermark was not registered, a
\* sub-task was not scheduled, or a sub-task failed or was aborted.
TaskFailed ==
    \/ tracker = "none"
    \/ \E i \in DOMAIN sub_task :
          sub_task[i].state = "unspawned" \/ sub_task[i].kind \in {"Err", "JoinError"}

\* C10 (as claimed): when compact is over, report_compaction_task has been
\* called for the task; if anything failed, compact returned false and the
\* report carries task_status = false.
C10_AlwaysReportsBack ==
    task_pc \in {"returned", "panicked"} =>
        /\ report # <<>>
        /\ TaskFailed => (return_value = "false" /\ report[1].task_status = FALSE)

\* compact is over: it returned or it panicked.
Exited == task_pc \in {"returned", "panicked"}

\* C11: a sub-task that returned an error leaves compact collecting; the
\* report is sent only after every sub-task of the task was waited for and
\* its result collected; and once compact is past the collect loop, it has
\* reported task_status = true if and only if every sub-task returned Ok.
C11_ErrorsDoNotCancelSiblings ==
    /\ (compact_success = FALSE /\ report = <<>>)
           => task_pc \in {"collecting", "panicked"}
    /\ report # <<>> => \A i \in DOMAIN sub_task : sub_task[i].state = "joined"
    /\ (Exited \/ task_pc = "reported") =>
           ( (report # <<>> /\ report[1].task_status)
             <=> \A i \in DOMAIN sub_task : sub_task[i].kind = "Ok" )

\* One sub-task returned an error, its sibling returned Ok with an SST, and
\* the task was reported as failed with the sibling's SST listed.
C11_Witness ==
    /\ report # <<>>
    /\ report[1].task_status = FALSE
    /\ \E i, j \in DOMAIN sub_task :
          /\ sub_task[i].kind = "Err"
          /\ sub_task[j].kind = "Ok"
          /\ sub_task[j].ssts # <<>>
          /\ report[1].sorted_output_ssts = sub_task[j].ssts

\* C12: a sub-task has returned Ok only if every upload spawned for its
\* sealed SSTs completed successfully; a failed or lost upload has made the
\* sub-task return an error; and every SST listed in a report with
\* task_status = true is an SST whose upload had completed successfully.
C12_OkOnlyAfterUploads ==
    /\ \A i \in DOMAIN sub_task :
          /\ sub_task[i].kind = "Ok" =>
                 /\ DOMAIN sub_task[i].uploads = DOMAIN sub_task[i].ssts
                 /\ AllUploaded(sub_task[i].uploads)
          /\ (\E k \in DOMAIN sub_task[i].uploads :
                  sub_task[i].uploads[k] \in UploadFailures)
                 => sub_task[i].kind = "Err"
    /\ (report # <<>> /\ report[1].task_status) =>
          \A n \in DOMAIN report[1].sorted_output_ssts :
              \E i \in DOMAIN sub_task : \E k \in DOMAIN sub_task[i].ssts :
                  /\ sub_task[i].ssts[k] = report[1].sorted_output_ssts[n]
                  /\ sub_task[i].uploads[k] = "ok"

\* A task was reported as successful with two uploaded SSTs.
C12_Witness ==
    /\ report # <<>>
    /\ report[1].task_status
    /\ Len(report[1].sorted_output_ssts) >= 2


\* C13: the watermark is registered before any sub-task is started; it is
\* removed only after compact is over; every exit of compact after a
\* successful registration leaves the removal pending (the exit does not wait
\* for it); remove_watermark_sst_id is never called twice; and after such an
\* exit the watermark is eventually removed by exactly one call.
C13_WatermarkReleasedOnce ==
    /\ [](\A i \in DOMAIN sub_task :
              sub_task[i].state # "unspawned" => tracker # "none")
    /\ [](tracker \in {"releasing", "removed"} => Exited)
    /\ []((Exited /\ tracker # "none") => tracker \in {"releasing", "removed"})
    /\ [][(~Exited /\ Exited' /\ tracker # "none") => tracker' = "releasing"]_vars
    /\ [](remove_watermark_calls <= 1)
    /\ [](tracker = "removed" <=> remove_watermark_calls = 1)
    /\ ((Exited /\ tracker # "none")
           ~> (tracker = "removed" /\ remove_watermark_calls = 1))

\* compact panicked in the collect loop and the watermark was removed.
C13_Witness ==
    /\ task_pc = "panicked"
    /\ tracker = "removed"
    /\ remove_watermark_calls = 1

\* C14 (as claimed): a task whose compaction_filter_mask is not a valid flag
\* set is not reported as successful and no output is reported for it: once
\* compact is over it was reported with task_status = false.
C14_InvalidMaskFails ==
    from_bits(compaction_filter_mask) = <<>> =>
        /\ report # <<>> =>
               (report[1].task_status = FALSE /\ report[1].sorted_output_ssts = <<>>)
        /\ return_value # "true"

\* C15 (as claimed): when SST id allocation failed in a sub-task, the
\* sub-task returned an error and, once compact is over, the task was
\* reported with task_status = false.
C15_IdFailureReportedFailed ==
    \A i \in DOMAIN sub_task :
        sub_task[i].cause = "sst_id" =>
            /\ sub_task[i].kind = "Err"
            /\ Exited => (report # <<>> /\ report[1].task_status = FALSE)

\* The handles to PinnedVersion object obj: the LocalVersion's, if obj is
\* installed, and one per ReadVersion that carries it.
HandlesOf(obj) ==
    (IF pinned_version = obj THEN 1 ELSE 0)
    + Cardinality({r \in Readers :
                      /\ readers[r].pc \in {"cloned", "holding"}
                      /\ readers[r].pinned_version = obj})

\* The messages on the unpin channel that object obj sent.
PostsOf(obj) == {n \in DOMAIN unpin_worker_tx : unpin_worker_tx[n].object = obj}

\* C16: for every PinnedVersion object the strong count is the number of its
\* handles, its id (and nothing else) is on the unpin channel exactly once
\* when no handle is left and not at all while a handle exists; the version
\* installed in a live LocalVersion has not been posted.
C16_UnpinOnLastDrop ==
    /\ \A obj \in DOMAIN versions :
          /\ versions[obj].handles = HandlesOf(obj)
          /\ Cardinality(PostsOf(obj)) = (IF HandlesOf(obj) = 0 THEN 1 ELSE 0)
          /\ \A n \in PostsOf(obj) : unpin_worker_tx[n].id = versions[obj].id
    /\ Alive => PostsOf(pinned_version) = {}

\* A version that is no longer installed is kept alive by a ReadVersion
\* while an older one has been posted.
C16_Witness ==
    /\ Alive
    /\ \E obj, old \in DOMAIN versions :
          /\ obj # pinned_version
          /\ HandlesOf(obj) = 1
          /\ PostsOf(obj) = {}
          /\ PostsOf(old) # {}

\* C17: the ReadVersion read_version(e) returned lists exactly the shared
\* buffers of the LocalVersion whose epoch is above the max_committed_epoch
\* of the pinned version it carries and at most e, each with its content, in
\* strictly descending epoch order, and none when e <= max_committed_epoch.
C17_ReadVersionBuffers ==
    \A r \in Readers :
        readers[r].pc = "holding" =>
            LET e == readers[r].read_epoch
                mce == versions[readers[r].pinned_version].max_committed_epoch
                list == readers[r].shared_buffer
                state == readers[r].locked_buffers
            IN /\ \A n \in DOMAIN list :
                      /\ mce < list[n].epoch /\ list[n].epoch <= e
                      /\ list[n].epoch \in DOMAIN state
                      /\ list[n].buffer = state[list[n].epoch]
               /\ \A x \in DOMAIN state :
                      (mce < x /\ x <= e) => \E n \in DOMAIN list : list[n].epoch = x
               /\ \A n \in 1..(Len(list) - 1) : list[n].epoch > list[n + 1].epoch
               /\ e <= mce => list = <<>>

\* A read returned two buffers, the newer epoch first.
C17_Witness ==
    \E r \in Readers :
        /\ readers[r].pc = "holding"
        /\ Len(readers[r].shared_buffer) = 2
        /\ readers[r].shared_buffer[1].buffer # readers[r].shared_buffer[2].buffer

\* C18: while read_version holds the guard the LocalVersion does not change,
\* and the ReadVersion it returns pairs the pinned version and the buffers
\* of the one state the LocalVersion had when the guard was taken.
C18_ReadSeesOneState ==
    \A r \in Readers :
        /\ readers[r].pc \in {"guard", "cloned"} =>
              /\ pinned_version = readers[r].locked_pinned
              /\ shared_buffer = readers[r].locked_buffers
        /\ readers[r].pc = "holding" =>
              /\ readers[r].pinned_version = readers[r].locked_pinned
              /\ {readers[r].shared_buffer[n].epoch : n \in DOMAIN readers[r].shared_buffer}
                 = {x \in DOMAIN readers[r].locked_buffers :
                       /\ x > versions[readers[r].locked_pinned].max_committed_epoch
                       /\ x <= readers[r].read_epoch}

\* A ReadVersion outlived its state: a later set_pinned_version installed
\* another version and removed a buffer the ReadVersion lists.
C18_Witness ==
    \E r \in Readers :
        /\ readers[r].pc = "holding"
        /\ Alive
        /\ readers[r].pinned_version # pinned_version
        /\ \E n \in DOMAIN readers[r].shared_buffer :
              readers[r].shared_buffer[n].epoch \notin DOMAIN shared_buffer

\* What set_pinned_version(new) leaves behind when it cleans: new is
\* installed, no buffer at or below new.max_committed_epoch remains, the
\* buffers above it are kept unchanged, and the returned list is exactly the
\* epochs removed.
Cleaned(mce) ==
    /\ pinned_version' = Len(versions')
    /\ versions'[pinned_version'].max_committed_epoch = mce
    /\ \A e \in DOMAIN shared_buffer' : e > mce
    /\ \A e \in DOMAIN shared_buffer :
          e > mce => (e \in DOMAIN shared_buffer' /\ shared_buffer'[e] = shared_buffer[e])
    /\ DOMAIN shared_buffer' \subseteq DOMAIN shared_buffer
    /\ {last_call'[1].returned[n] : n \in DOMAIN last_call'[1].returned}
           = DOMAIN shared_buffer \ DOMAIN shared_buffer'
    /\ Len(last_call'[1].returned)
           = Cardinality(DOMAIN shared_buffer \ DOMAIN shared_buffer')

\* C19 (as claimed): every set_pinned_version(new) cleans.
C19_SetPinnedVersionCleans ==
    [][\A mce \in CommittedEpochs : SetPinnedVersion(mce) => Cleaned(mce)]_vars

\* C19 (amended): set_pinned_version(new) always installs new; it cleans
\* when new.max_committed_epoch is above the max_committed_epoch of the
\* version installed before, and otherwise it leaves every shared buffer in
\* place, those at or below new.max_committed_epoch included, and returns
\* the empty list.
C19_CleansWhenAdvanced ==
    [][\A mce \in CommittedEpochs :
          SetPinnedVersion(mce) =>
              IF versions[pinned_version].max_committed_epoch < mce
              THEN Cleaned(mce)
              ELSE /\ pinned_version' = Len(versions')
                   /\ versions'[pinned_version'].max_committed_epoch = mce
                   /\ shared_buffer' = shared_buffer
                   /\ last_call'[1].returned = <<>>]_vars

\* set_pinned_version has just removed a buffer and kept another.
C19_Witness ==
    /\ last_call # <<>>
    /\ last_call[1].op = "set_pinned_version"
    /\ last_call[1].returned # <<>>
    /\ DOMAIN shared_buffer # {}

\* C20: new_shared_buffer(epoch) returns an empty buffer when the epoch had
\* none and otherwise the buffer the epoch had, content untouched; the
\* buffers of the other epochs and the pinned version stay as they were.
C20_NewSharedBufferKeeps ==
    [][\A e \in 1..MaxLocalEpoch :
          NewSharedBuffer(e) =>
              /\ e \notin DOMAIN shared_buffer => shared_buffer'[e] = EmptyBuffer
              /\ e \in DOMAIN shared_buffer => shared_buffer'[e] = shared_buffer[e]
              /\ last_call'[1].returned = shared_buffer'[e]
              /\ DOMAIN shared_buffer' = DOMAIN shared_buffer \cup {e}
              /\ \A x \in DOMAIN shared_buffer \ {e} : shared_buffer'[x] = shared_buffer[x]
              /\ pinned_version' = pinned_version
              /\ versions' = versions
              /\ unpin_worker_tx' = unpin_worker_tx]_vars

\* new_shared_buffer was called for an epoch whose buffer had been written
\* to, and returned that buffer, while another epoch has a buffer too.
C20_Witness ==
    /\ last_call # <<>>
    /\ last_call[1].op = "new_shared_buffer"
    /\ last_call[1].returned # EmptyBuffer
    /\ Cardinality(DOMAIN shared_buffer) >= 2

\* C21: clear_shared_buffer removes every shared buffer and returns, in
\* ascending order, exactly the epochs that had one; the pinned version, the
\* version objects and their handle counts, version_ids_in_use and the unpin
\* channel stay as they were.
C21_ClearSharedBufferFrame ==
    [][ClearSharedBuffer =>
          /\ DOMAIN shared_buffer' = {}
          /\ last_call'[1].returned = keys(DOMAIN shared_buffer, 0)
          /\ {last_call'[1].returned[n] : n \in DOMAIN last_call'[1].returned}
                 = DOMAIN shared_buffer
          /\ Len(last_call'[1].returned) = Cardinality(DOMAIN shared_buffer)
          /\ pinned_version' = pinned_version
          /\ versions' = versions
          /\ version_ids_in_use' = version_ids_in_use
          /\ unpin_worker_tx' = unpin_worker_tx]_vars

\* clear_shared_buffer has just removed the buffers of two epochs while a
\* second version is pinned and the first one has been unpinned.
C21_Witness ==
    /\ last_call # <<>>
    /\ last_call[1].op = "clear_shared_buffer"
    /\ Len(last_call[1].returned) >= 2
    /\ shared_buffer = NoBuffers
    /\ pinned_version > 1
    /\ Len(unpin_worker_tx) = 1

\* add_full_key(.., allow_split) finds a builder open that has reached its
\* capacity, and splitting is allowed.
SplitDue(allow_split) ==
    IF sst_builder.current_builder = NoBuilder THEN FALSE
    ELSE allow_split /\ reach_capacity(sst_builder.current_builder[1])

\* C26: add_full_key seals the open builder (pushing it to the sealed ones
\* and spawning its upload) and starts a new builder from the factory exactly
\* when a builder is open, allow_split is true and the open builder has
\* reached its capacity; otherwise nothing is sealed, the entry goes into the
\* open builder however full it is, and when none is open (the first add
\* included) the factory opens one, whatever allow_split is.
C26_SealsExactlyWhenDue ==
    [][\A entry \in BuilderEntries, allow_split \in BOOLEAN :
          (IF AddFullKey(entry, allow_split) THEN TRUE
           ELSE AddFullKeyFail(entry, allow_split)) =>
              LET open == sst_builder.current_builder # NoBuilder
                  due == SplitDue(allow_split)
              IN /\ due =>
                        /\ sst_builder'.sealed_builders =
                               Append(sst_builder.sealed_builders,
                                      sst_builder.current_builder[1])
                        /\ upload_spawns' =
                               Append(upload_spawns, sst_builder.current_builder[1].id)
                 /\ ~due =>
                        /\ sst_builder'.sealed_builders = sst_builder.sealed_builders
                        /\ upload_spawns' = upload_spawns
                 /\ AddFullKey(entry, allow_split) =>
                        IF due \/ ~open
                        THEN /\ sst_builder'.current_builder =
                                    <<[id |-> next_sst_id, entries |-> <<entry>>]>>
                             /\ factory_calls' = Append(factory_calls, next_sst_id)
                        ELSE /\ sst_builder'.current_builder =
                                    <<[sst_builder.current_builder[1] EXCEPT
                                          !.entries = Append(@, entry)]>>
                             /\ factory_calls' = factory_calls]_vars

\* A capacity split has happened, and the open builder holds more entries
\* than its capacity because its later adds did not allow a split.
C26_Witness ==
    /\ ~finished
    /\ Len(sst_builder.sealed_builders) >= 1
    /\ sst_builder.current_builder # NoBuilder
    /\ Len(sst_builder.current_builder[1].entries) > Capacity

\* C27: at most one builder is open, len() is the number of sealed SSTs plus
\* one if a builder is open, seal_current with no builder open changes
\* nothing (so a second seal_current in a row changes nothing), and finish
\* returns exactly len() SSTs.
C27_LenCountsBuilders ==
    /\ [](/\ Len(sst_builder.current_builder) <= 1
          /\ builder_len(sst_builder) =
                 Len(sst_builder.sealed_builders) + Len(sst_builder.current_builder)
          /\ seal_current(seal_current(sst_builder)) = seal_current(sst_builder))
    /\ [][SealCurrent =>
              /\ sst_builder.current_builder = NoBuilder =>
                     /\ sst_builder' = sst_builder
                     /\ upload_spawns' = upload_spawns
              /\ seal_current(sst_builder') = sst_builder'
              /\ builder_len(sst_builder') = builder_len(sst_builder)]_vars
    /\ [][FinishBuilder => Len(results') = builder_len(sst_builder)]_vars

\* finish returned two or more SSTs, one upload spawned for each.
C27_Witness ==
    /\ finished
    /\ Len(results) >= 2
    /\ Len(upload_spawns) = Len(results)
    /\ Len(added) > Len(results)

\* C28: the factory opens a builder only in an add_full_key that puts its
\* entry into that builder, so no SST held or returned is without entries;
\* finish on a builder that accepted no entry returns the empty list, having
\* called the factory and spawned an upload not once.
C28_NoEmptySst ==
    /\ [](/\ \A i \in DOMAIN SstsOf(sst_builder) :
                 SstsOf(sst_builder)[i].entries # <<>>
          /\ \A i \in DOMAIN results : results[i].entries # <<>>)
    /\ [][factory_calls' # factory_calls =>
              /\ added' # added
              /\ sst_builder'.current_builder =
                     <<[id |-> factory_calls'[Len(factory_calls')],
                        entries |-> <<added'[Len(added')]>>]>>]_vars
    /\ [][(FinishBuilder /\ added = <<>>) =>
              /\ results' = <<>>
              /\ factory_calls' = <<>>
              /\ upload_spawns' = <<>>]_vars

\* finish was called on a builder that had accepted no entry.
C28_Witness ==
    /\ finished
    /\ added = <<>>
    /\ results = <<>>
    /\ upload_spawns = <<>>

\* The ids of a list of SSTs, in order.
IdsOf(ssts) == [i \in DOMAIN ssts |-> ssts[i].id]

\* C29: the ids of the SSTs the builder holds, and of those finish returns,
\* are the ids the factory handed out, one factory call per SST and in the
\* order of the calls; the factory hands out fresh ids, so no two SSTs have
\* the same id.
C29_OneFactoryCallPerSst ==
    /\ IdsOf(SstsOf(sst_builder)) = factory_calls
    /\ finished =>
           /\ IdsOf(results) = factory_calls
           /\ \A i, j \in DOMAIN results : i # j => results[i].id # results[j].id

\* finish returned three SSTs or more, the outcome of at least two splits.
C29_Witness ==
    /\ finished
    /\ Len(results) >= 3
    /\ Len(factory_calls) = Len(results)

\* C22: once the shutdown receiver is ready the service loop exits in the
\* end, wherever it stands, and from the moment it has seen the signal it
\* stays exited and spawns no handler.
C22_ShutdownStopsLoop ==
    /\ Fired ~> (service_pc = "exited")
    /\ [][observed_at # "none" =>
              /\ service_pc' = "exited"
              /\ Len(handlers') = Len(handlers)]_vars

\* The loop saw the sent signal while it waited for a stream message, with a
\* handler it had spawned still running.
C22_Witness ==
    /\ service_pc = "exited"
    /\ observed_at = "consume"
    /\ shutdown_rx = "sent"
    /\ \E h \in DOMAIN handlers : handlers[h].state = "running"

\* C23: a failed subscribe, a stream error and the end of the stream each
\* send the loop back to waiting for the tick, and from there it calls
\* subscribe again in the end unless shutdown fires.
C23_FailuresLeadToResubscribe ==
    /\ [][(SubscribeFail \/ StreamError \/ StreamEnd) =>
              /\ service_pc' = "tick_wait"
              /\ handlers' = handlers]_vars
    /\ (service_pc = "tick_wait" /\ last_failure # "none")
           ~> (service_pc = "subscribing" \/ Fired)

\* After the stream ended the loop has opened a new stream, shutdown not
\* having fired.
C23_Witness ==
    /\ service_pc = "consume"
    /\ last_failure = "stream_end"
    /\ ~Fired

\* C24: every handler runs detached; no step of a handler, its failure and
\* its panic included, moves the loop, receiving a task leaves the loop
\* receiving, a task can be received whatever the handlers do, and the loop
\* is exited only by the shutdown signal.
C24_HandlerFailureLeavesLoop ==
    /\ [][\A h \in DOMAIN handlers :
              \A to \in {"reported", "done", "failed", "panicked"} :
                  HandlerStep(h, to) =>
                      UNCHANGED <<service_pc, shutdown_rx, last_failure,
                                  last_message, observed_at>>]_vars
    /\ [][\A task \in TaskKinds :
              ReceiveTask(task) =>
                  /\ service_pc' = "consume"
                  /\ handlers'[Len(handlers')].state = "running"
                  /\ \A h \in DOMAIN handlers : handlers'[h] = handlers[h]]_vars
    /\ [](/\ \A h \in DOMAIN handlers : handlers[h].detached
          /\ (service_pc = "consume" /\ Len(handlers) < MaxTasks) =>
                 ENABLED ReceiveTask("CompactTask")
          /\ service_pc = "exited" => (Fired /\ observed_at # "none"))

\* A handler has panicked, a later task was dispatched after that, and the
\* loop is still receiving with no shutdown.
C24_Witness ==
    /\ service_pc = "consume"
    /\ ~Fired
    /\ \E h1, h2 \in DOMAIN handlers :
          /\ h1 < h2
          /\ handlers[h1].state = "panicked"
          /\ handlers[h2].after_failure

\* C25 (as claimed): a compaction handler that was in flight when shutdown
\* fired and is no longer running has reported its result to the manager.
C25_InFlightCompactionReports ==
    \A h \in DOMAIN handlers :
        (/\ handlers[h].kind = "CompactTask"
         /\ handlers[h].in_flight_at_shutdown
         /\ handlers[h].state # "running")
            => handlers[h].state \in {"reported", "done"}

\* The j-th smallest index of a set of indices, and the projection of a
\* sequence onto a set of 0-based indices, in the original order.
NthIndex(indices, j) ==
    CHOOSE i \in indices : Cardinality({k \in indices : k < i}) = j - 1

Project(items, indices) ==
    [j \in 1..Cardinality(indices) |-> items[NthIndex(indices, j) + 1]]

\* The indices the serializer is to keep.
DedupIndices ==
    {i \in Indices(Len(column_descs)) :
        i \notin pk_indices \/ ~mem_cmp_eq_value_enc(column_descs[i + 1].data_type)}

\* C30: the serializer keeps column i exactly when i is outside the pk or
\* the column's type has a memcomparable encoding that differs from its value
\* encoding; its column ids are the column ids projected onto those indices;
\* serialize gives one cell per datum of the projected row that is not None,
\* under the projected column id of the same position, and the delimiter
\* cell; and the compact deserializer takes project(row, dedup_indices).
C30_DedupRoundTrip ==
    /\ ser_pc \in {"serialize", "deserialize", "done"} =>
           /\ serializer[1].dedup_datum_indices = DedupIndices
           /\ serializer[1].inner = Project(column_ids, DedupIndices)
    /\ ser_pc \in {"deserialize", "done"} =>
           LET projected == Project(row, DedupIndices)
               ids == Project(column_ids, DedupIndices)
               present == {j \in DOMAIN projected : projected[j] # NoneDatum}
           IN /\ Len(cells) = Cardinality(present) + 1
              /\ cells[Len(cells)] = DelimiterCell
              /\ \A j \in present :
                     \E n \in DOMAIN cells :
                         /\ cells[n] = [column_id |-> ids[j],
                                        value |-> serialize_datum(projected[j])]
                         /\ n = Cardinality({k \in present : k <= j})
    /\ ser_pc = "done" => deserialized = <<Project(row, DedupIndices)>>

\* A three column row was round-tripped: one pk column was left out, one pk
\* column was kept for its encoding, and a kept datum is None.
C30_Witness ==
    /\ ser_pc = "done"
    /\ Len(column_descs) = 3
    /\ \E i \in pk_indices : i \notin DedupIndices
    /\ \E i \in pk_indices : i \in DedupIndices
    /\ Len(deserialized[1]) = 2
    /\ \E j \in DOMAIN deserialized[1] : deserialized[1][j] = NoneDatum
    /\ \E j \in DOMAIN deserialized[1] : deserialized[1][j] # NoneDatum

\* input[i] is the first entry of its user key at or below the watermark:
\* the one with the largest epoch <= watermark.
FirstAtOrBelow(i) ==
    /\ get_epoch(input[i].key) <= watermark
    /\ \A j \in 1..(i - 1) :
           same_user_key(input[j].key, input[i].key)
               => get_epoch(input[j].key) > watermark

\* C34 (as claimed): the first entry of a user key at or below the watermark
\* that lies inside the key range is in the output unless it is a collapsed
\* tombstone.
C34_FirstAtOrBelowKept ==
    pc = "done" =>
        \A i \in DOMAIN input :
            ( /\ InRange(input[i].key, kr)
              /\ FirstAtOrBelow(i)
              /\ ~CollapsedTombstone(input[i]) )
            => input[i] \in Output

\* C34 (amended): the first entry of a user key at or below the watermark
\* that lies inside the key range is in the output unless it is a collapsed
\* tombstone or the compaction filter vetoes it.
C34_FirstAtOrBelowKeptUnlessVetoed ==
    pc = "done" =>
        \A i \in DOMAIN input :
            ( /\ InRange(input[i].key, kr)
              /\ FirstAtOrBelow(i)
              /\ ~CollapsedTombstone(input[i])
              /\ ~should_delete(compaction_filter, input[i].key) )
            => input[i] \in Output

\* The first entry of a user key at or below the watermark, with an epoch
\* strictly below it, was kept and an older version of the key was dropped.
C34_Witness ==
    /\ pc = "done"
    /\ \E i, j \in DOMAIN input :
          /\ i < j
          /\ same_user_key(input[i].key, input[j].key)
          /\ InRange(input[i].key, kr) /\ InRange(input[j].key, kr)
          /\ FirstAtOrBelow(i)
          /\ get_epoch(input[i].key) < watermark
          /\ input[i] \in Output
          /\ input[j] \notin Output

\* The entries the loop has looked at once the split is built: from the
\* position of the seek up to where the loop stopped.
Visited(i) ==
    /\ i >= (IF kr.left # EmptyKey THEN SeekPos(input, kr.left) ELSE RewindPos)
    /\ i < iter

\* C39: an entry at or below the watermark that the loop dropped, by the
\* filter or as a collapsed tombstone, shadows its user key: no entry of that
\* user key at or below its epoch is in the output.
C39_DroppedEntryShadowsOlder ==
    pc = "done" =>
        \A i \in DOMAIN input :
            ( /\ Visited(i)
              /\ get_epoch(input[i].key) <= watermark
              /\ input[i] \notin Output )
            => \A j \in DOMAIN input :
                   ( /\ same_user_key(input[j].key, input[i].key)
                     /\ get_epoch(input[j].key) <= get_epoch(input[i].key) )
                   => input[j] \notin Output

\* The filter vetoed the newest entry of a user key at or below the
\* watermark, a Put, and an older Put of the key inside the range, which the
\* filter does not veto, was dropped with it.
C39_Witness ==
    /\ pc = "done"
    /\ ~gc_delete_keys
    /\ \E i, j \in DOMAIN input :
          /\ i < j
          /\ same_user_key(input[i].key, input[j].key)
          /\ Visited(i) /\ Visited(j)
          /\ FirstAtOrBelow(i)
          /\ should_delete(compaction_filter, input[i].key)
          /\ ~should_delete(compaction_filter, input[j].key)
          /\ input[i].value = Put /\ input[j].value = Put
          /\ input[j] \notin Output

\* compact_and_build_sst and finish run on the output of the split, with the
\* split's key range, watermark and gc_delete_keys and with no filter.
SecondPass ==
    compact_key_range(Concat(sst_builder.sealed_builders), kr, gc_delete_keys,
                      watermark, {}, 1).ssts

\* C38 (as claimed): a second pass over the output of a split, with the same
\* key range, watermark and gc_delete_keys and no filter, writes exactly the
\* entries of that output again, in the same order: it drops nothing.
C38_CompactionIdempotent ==
    pc = "done" => Concat(SecondPass) = Concat(sst_builder.sealed_builders)

\* C37: the entries of the SSTs returned by finish, concatenated in sealing
\* order, are the entries of the add_full_key calls that returned Ok, in call
\* order; before finish the same holds of the builders the wrapper holds.
C37_FinishReturnsAddedEntries ==
    /\ Concat(SstsOf(sst_builder)) = added
    /\ finished => Concat(results) = added

\* finish returned two SSTs holding four entries, not all the same.
C37_Witness ==
    /\ finished
    /\ Len(results) >= 2
    /\ Len(added) = MaxAdds
    /\ \E i, j \in DOMAIN added : added[i] # added[j]

\* A sub-task that was spawned and has not finished yet.
Unfinished(i) == sub_task[i].state \in {"running", "uploading"}

\* C35 (as claimed): remove_watermark_sst_id has not been issued while a
\* sub-task that was spawned has not finished, whichever way compact ended.
C35_NoReleaseWhileSubTaskRuns ==
    tracker = "removed" => \A i \in DOMAIN sub_task : ~Unfinished(i)

\* C36: the report lists exactly the SSTs of the sub-tasks that returned Ok,
\* also when task_status is false, and no SST a failed sub-task had built.
C36_ReportListsSucceededSplits ==
    report # <<>> =>
        /\ report[1].sorted_output_ssts = OkSstsFrom(1)
        /\ \A i \in DOMAIN sub_task :
              sub_task[i].kind # "Ok" =>
                  \A k \in DOMAIN sub_task[i].ssts :
                      \A n \in DOMAIN report[1].sorted_output_ssts :
                          report[1].sorted_output_ssts[n] # sub_task[i].ssts[k]

\* A report with task_status false that lists the SST of a split that
\* succeeded, while another split had built an SST and then failed.
C36_Witness ==
    /\ report # <<>>
    /\ ~report[1].task_status
    /\ report[1].sorted_output_ssts # <<>>
    /\ \E i \in DOMAIN sub_task : sub_task[i].kind = "Err" /\ sub_task[i].ssts # <<>>

\* C40 (as claimed): when compact is over, whichever way it ended, the
\* compact_task_pending_num gauge is back at the value it had before the call.
C40_PendingGaugeBalanced ==
    Exited => compact_task_pending_num = 0

Registers ==
    table_call # <<>> /\ table_call.op \in {"create_table_v2", "create_materialized_view",
                                            "register_associated_materialized_view"}

\* C31 (as claimed): a call that would register an id already present
\* returns an error and leaves the registry as it found it, and so does the
\* registration of a materialized view for an associated table that is
\* missing.
C31_RegistryNeverOverwrites ==
    Registers =>
        /\ contains_key(table_call.before, table_call.table_id)
              => (table_call.result = "Err" /\ tables = table_call.before)
        /\ ( /\ table_call.op = "register_associated_materialized_view"
             /\ ~contains_key(table_call.before, table_call.associated_table_id) )
              => (table_call.result = "Err" /\ tables = table_call.before)

\* The sender of subscribe call s is registered for updates.
Registered(s) == \E x \in senders : x.tx = s

\* The snapshot the claim gives each worker type.
ClaimedSnapshot(worker_type, info) ==
    IF worker_type = "Frontend"
    THEN /\ info.database = core.database /\ info.schema = core.schema
         /\ info.source = core.source /\ info.sink = core.sink
         /\ info.table = core.table /\ info.index = core.index
         /\ info.nodes = core.nodes
         /\ info.users = core.users
         /\ info.hummock_version = NoVersion
    ELSE /\ info.table = core.table \cup core.processing_table
         /\ info.database = {} /\ info.schema = {} /\ info.source = {}
         /\ info.sink = {} /\ info.index = {} /\ info.nodes = {} /\ info.users = {}
         /\ info.hummock_version = IF worker_type = "ComputeNode"
                                   THEN <<core.hummock_version>> ELSE NoVersion

\* C32: the first message on the stream of a subscription is the Snapshot of
\* its worker type and no later one is a Snapshot; a sender is registered for
\* updates only after its Snapshot was sent, and a returned stream has it.
C32_SnapshotFirst ==
    \A s \in DOMAIN subscriptions :
        /\ streams[s] # <<>> =>
              /\ streams[s][1].operation = "Snapshot"
              /\ ClaimedSnapshot(subscriptions[s].worker_type, streams[s][1].info)
              /\ \A n \in 2..Len(streams[s]) : streams[s][n].operation = "Update"
        /\ (Registered(s) \/ subscriptions[s].at = "returned") => streams[s] # <<>>

\* A compute node subscribed while a table was being created, and an update
\* followed its snapshot; a frontend subscribed too.
C32_Witness ==
    /\ core.processing_table # {}
    /\ \E s \in DOMAIN subscriptions :
          /\ subscriptions[s].worker_type = "ComputeNode"
          /\ subscriptions[s].at = "returned"
          /\ Len(streams[s]) >= 2
    /\ \E s \in DOMAIN subscriptions :
          /\ subscriptions[s].worker_type = "Frontend"
          /\ subscriptions[s].at = "returned"

====
